---- MODULE Spec2Model ----
(***************************************************************************)
(* GunfireSaveSystem: the persistence manager's background job system.     *)
(*                                                                         *)
(* Two threads are modelled.  The simulation (game) thread runs the public *)
(* API of UPersistenceManager, the thread-hop tasks (AsyncTask on the game *)
(* thread) and the asset loader's completion callback, each atomically.    *)
(* The worker thread runs UPersistenceManager::Run, one step per access to *)
(* state it shares with the game thread (the job queue and running flag    *)
(* under ThreadJobsLock, the wake event, the stop flag, UserIndex).        *)
(***************************************************************************)
EXTENDS Integers, Sequences, FiniteSets, TLC

\* ---------------------------------------------------------------- bounds
\* Number of API calls that take a call id (every queued job and every
\* refused commit).
MaxCalls == 2
\* Save slots are 0..MaxSlot.
MaxSlot == 1
\* Controller (user) indices are 0..MaxUser.
MaxUser == 1
\* Context objects that take commit locks are 1..NumContexts (0 is null).
NumContexts == 2
\* FWindowsSaveGameSystem::NumBackups as configured by SetBackupSettings.
NumBackups == 1

\* ------------------------------------------------------ program constants
GUNFIRE_PERSISTENCE_VERSION == 10
\* GetBuildNumber is unbound: FSaveHeader uses 0 and skips the comparison.
CurrentBuildNumber == 0

Slots == 0..MaxSlot
Users == 0..MaxUser
Contexts == 1..NumContexts
NullContext == 0

\* --------------------------------------------------------------- values
\* A save document (USaveGameWorld / USaveGameProfile).  origin and slot
\* record where the object came from; content stands for its saved fields.
NullDoc == [origin |-> "null", slot |-> -1, content |-> -1]
NewDoc(slot, content) == [origin |-> "new", slot |-> slot, content |-> content]
ReadDoc(slot, content) == [origin |-> "read", slot |-> slot, content |-> content]

\* A byte buffer (TArray<uint8>): the header fields FSaveHeader reads and
\* the serialized object graph.  Damaged: the size or the checksum stored
\* in the header does not match the bytes.
EmptyData == [Version |-> 0, Damaged |-> FALSE, BuildNumber |-> 0, Payload |-> -1]
NoFile == [Version |-> -1, Damaged |-> FALSE, BuildNumber |-> 0, Payload |-> -1]
Blob(version, damaged, payload) ==
    [Version |-> version, Damaged |-> damaged, BuildNumber |-> 0, Payload |-> payload]

SlotName(slot) == <<"save", slot>>
ProfileName == <<"profile", -1>>
Names == {SlotName(s) : s \in Slots} \cup {ProfileName}

LoadTypes == {"LoadSlot", "LoadProfile", "ReadSlot"}
DeleteTypes == {"DeleteSlot", "DeleteProfile"}
BackupTypes == {"HasSlotBackup", "HasProfileBackup", "RestoreSlotBackup", "RestoreProfileBackup"}
ProfileTypes == {"LoadProfile", "DeleteProfile", "HasProfileBackup", "RestoreProfileBackup"}

NoJob == [id |-> 0, Type |-> "Uninitialized", Slot |-> -1, WorldData |-> EmptyData,
          ProfileData |-> EmptyData, AsyncLoad |-> FALSE, qUser |-> -1,
          restored |-> FALSE]

\* FThreadJob as the API functions construct it.  qUser and restored are
\* not fields of the job: qUser remembers UserIndex at the time of the
\* call, restored that the job's storage read put a backup in place of a
\* corrupt save.
NewJob(id, type, slot, user) ==
    [id |-> id, Type |-> type, Slot |-> slot, WorldData |-> EmptyData,
     ProfileData |-> EmptyData, AsyncLoad |-> FALSE, qUser |-> user,
     restored |-> FALSE]

VARIABLES
    \* UPersistenceManager, simulation-thread state
    CurrentSlot, CurrentData, UserProfile, UserIndex,
    NumSavesPending, NumBackgroundJobs,
    bDisableCommit, bNeverCommit, CommitLockObjects, EngineExit,
    \* persistence thread properties
    ThreadJobs, QueuedJobs, HasRunningThreadJob, ThreadShouldStop, ThreadHasWork,
    \* the worker thread inside Run: position and locals
    wpc, wJob, wExists, wRestored, wRet,
    \* AsyncTask(ENamedThreads::GameThread, ...) tasks not yet run
    GameTasks,
    \* the simulation thread's position and the weak pointer Job->Manager
    gpc, ManagerAlive,
    \* the save backend: live files, backup chains, names saved this run
    Files, Backups, LastBackupTime,
    \* observers: next call id, callbacks and events invoked, last storage
    \* call, the callers that have disabled commits and not re-enabled them
    NextId, Delivered, LastStoreCall, Holders

\* The job system's variables: the manager, its worker thread, the backend.
jobVars == <<CurrentSlot, CurrentData, UserProfile, UserIndex,
             NumSavesPending, NumBackgroundJobs,
             bDisableCommit, bNeverCommit, CommitLockObjects, EngineExit,
             ThreadJobs, QueuedJobs, HasRunningThreadJob, ThreadShouldStop, ThreadHasWork,
             wpc, wJob, wExists, wRestored, wRet,
             GameTasks, gpc, ManagerAlive,
             Files, Backups, LastBackupTime,
             NextId, Delivered, LastStoreCall, Holders>>

\* One persistence container: its header, as held in memory, and its blob.
\* WriteFrom, DestroyedAtWrite, Stage and Loaded are history variables: the
\* component list and the destroyed ids of the last WriteData, how far the
\* container has come since (written, packed, unpacked), and what the last
\* LoadData did.
VARIABLES Header, BlobData, LoadState,
          WriteFrom, DestroyedAtWrite, Stage, Loaded

containerVars == <<Header, BlobData, LoadState,
                   WriteFrom, DestroyedAtWrite, Stage, Loaded>>

\* The manager's registry: the components registered per container name, in
\* the order the names were added, and the current document's containers.
\* DeletedLog is a history variable: the names CommitSave deleted as unused.
VARIABLES RegisteredActors, Containers, DeletedLog

registryVars == <<RegisteredActors, Containers, DeletedLog>>

\* One streaming level, whose container is the one above: how far its load
\* has come, whether LoadedLevels has it, and the async load of its dynamic
\* actors' classes.  Loads and Broadcasts are history variables: the loads
\* of the level so far, and the OnDynamicSpawned broadcasts of this load.
VARIABLES LevelPhase, LevelTracked, DynamicActorLoad, Loads, Broadcasts

levelVars == <<LevelPhase, LevelTracked, DynamicActorLoad, Loads, Broadcasts>>

\* FWindowsSaveGameSystem step by step, for one save name: the files at the
\* live path, the temp path and the backup paths (0: no file, -1: a file
\* cut short by a crash, otherwise the content), the backup settings, the
\* clock, the position inside SaveGame with its locals Data and i, and the
\* last return value.  History variables: the live content when SaveGame was
\* called, the number of calls so far, the process runs, the last backup
\* time RotateBackups tested, and the calls of this process run, each with
\* the backup count and the time it was made at and what it returned.
VARIABLES Live, Temp, Bak, BackupCount, LastTime, Now, spc, sData, ri, SaveRet,
          PrevLive, SaveNo, Runs, TestedLast, Calls

backendVars == <<Live, Temp, Bak, BackupCount, LastTime, Now, spc, sData, ri, SaveRet,
                 PrevLive, SaveNo, Runs, TestedLast, Calls>>

\* FWindowsSaveGameSystem::RestoreBackup for the same save name: the file
\* renamed to <path>_<time>.corrupt (0: none) and the last return value
\* ("none" before the first call).  BeforeRestore is a history variable: the
\* live file, the backups and the backup count the last call found, and
\* which of its file moves failed (0: the rename of the live file, i: the
\* move of bak<i>).
VARIABLES CorruptFile, RestoreRet, BeforeRestore

restoreVars == <<CorruptFile, RestoreRet, BeforeRestore>>

\* A save blob cell by cell, one cell per serialized field: the buffer, and
\* what the last ReadSave or VerifySaveIntegrity made of it.  Changed is a
\* history variable: the offsets changed since WriteSave wrote the buffer.
VARIABLES SaveBlob, HeaderOut, Changed

headerVars == <<SaveBlob, HeaderOut, Changed>>

\* FSaveGameArchive on one object graph: the objects' reference fields and
\* outers (the root is object 1; 0 is nullptr, or an outer that is not
\* written), what WriteBaseObject wrote, and what ReadBaseObject made of it.
VARIABLES Graph, Outer, Archive, ReadBack

archiveVars == <<Graph, Outer, Archive, ReadBack>>

\* The manager's level offsets: the table SetLevelOffset fills, the level
\* each streaming level has loaded (0 once the streaming level is gone),
\* the location last written with the table of that moment, and the
\* location read back.
VARIABLES LevelOffsets, LoadedLevel, WrittenAt, ReadAt

offsetVars == <<LevelOffsets, LoadedLevel, WrittenAt, ReadAt>>

\* One container's dynamic-actor loading over its unpack-pack cycles: the
\* number of Unpack calls, whether the container is unpacked, the cycles
\* whose class load was requested and whose delegate has not been called,
\* the cycles whose delegate has been called, every value LoadState was
\* given with the function that gave it, and every call of
\* SpawnDynamicActorsInternal that spawned.
VARIABLES Cycle, Unpacked, PendingLoads, CalledBack, StateLog, SpawnLog

cycleVars == <<Cycle, Unpacked, PendingLoads, CalledBack, StateLog, SpawnLog>>

\* The gate of level initialization: whether the world is in a blocking
\* level-streaming pass, and the last answer of OnCanLevelActorsInitialize
\* with what it was asked about.
VARIABLES InBlock, Asked

gateVars == <<InBlock, Asked>>

\* The window of a map change: IsCachingUnloads and CachedUnloads of the
\* manager, where the engine is in its map change, the levels the last world
\* cleanup processed, and the checks that have failed.
VARIABLES IsCachingUnloads, CachedUnloads, MapPhase, Processed, FailedChecks

cacheVars == <<IsCachingUnloads, CachedUnloads, MapPhase, Processed, FailedChecks>>

\* The registration table with the components themselves: each component's
\* state, the components registered under each container key, and the levels
\* that have a key in LoadedLevels.
VARIABLES Comp, Table, KeyedLevels

tableVars == <<Comp, Table, KeyedLevels>>

\* The reader of an archive's records: its position, where the records read
\* so far end by their declared lengths, how many records have been read,
\* how many component records of the current actor are left, and whether
\* that actor exists.
VARIABLES ReadPos, DeclaredEnd, NumRead, ComponentsLeft, ActorFound

readVars == <<ReadPos, DeclaredEnd, NumRead, ComponentsLeft, ActorFound>>

\* The variables of the manager's callbacks modelled on their own.
lateVars == <<gateVars, cacheVars, tableVars, readVars>>

\* The variables of the parts added to the backend and the documents.
earlyVars == <<restoreVars, headerVars, archiveVars, offsetVars, cycleVars>>
sideVars == <<earlyVars, lateVars>>

\* What the actions of one of these parts leave alone.
mainVars == <<jobVars, containerVars, registryVars, levelVars, backendVars>>
restoreRest == <<headerVars, archiveVars, offsetVars, cycleVars, lateVars>>
headerRest == <<restoreVars, archiveVars, offsetVars, cycleVars, lateVars>>
archiveRest == <<restoreVars, headerVars, offsetVars, cycleVars, lateVars>>
offsetRest == <<restoreVars, headerVars, archiveVars, cycleVars, lateVars>>
cycleRest == <<restoreVars, headerVars, archiveVars, offsetVars, lateVars>>
gateRest == <<earlyVars, cacheVars, tableVars, readVars>>
cacheRest == <<earlyVars, gateVars, tableVars, readVars>>
tableRest == <<earlyVars, gateVars, cacheVars, readVars>>
readRest == <<earlyVars, gateVars, cacheVars, tableVars>>

\* The variables of the parts the job system does not touch.
auxVars == <<containerVars, registryVars, levelVars, backendVars, sideVars>>

CONTAINER_VERSION == 1
GPackageFileUEVersion == 1

\* FHeader::Reset.
HeaderReset ==
    [Version |-> CONTAINER_VERSION, UEVersion |-> GPackageFileUEVersion,
     IndexOffset |-> 0, DynamicOffset |-> 0,
     Info |-> <<>>, Destroyed |-> <<>>]

NotLoaded == [path |-> "none", id |-> 0, view |-> <<>>, values |-> <<>>]

\* A newly constructed container: empty blob, default header.
ContainerInit ==
    /\ Header = [HeaderReset EXCEPT !.Version = 0]
    /\ BlobData = <<>>
    /\ LoadState = "Uninitialized"
    /\ WriteFrom = <<>>
    /\ DestroyedAtWrite = {}
    /\ Stage = "new"
    /\ Loaded = NotLoaded

\* Nothing is registered and the manager has no document, hence no containers.
RegistryInit ==
    /\ RegisteredActors = <<>>
    /\ Containers = <<>>
    /\ DeletedLog = {}

\* No level is loaded.
LevelInit ==
    /\ LevelPhase = "unloaded"
    /\ LevelTracked = FALSE
    /\ DynamicActorLoad = "none"
    /\ Loads = 0
    /\ Broadcasts = 0

MaxBackups == 3

\* The backend as constructed (NumBackups = 0, no backup time recorded), on a
\* disk without files of the name.
BackendInit ==
    /\ Live = 0
    /\ Temp = 0
    /\ Bak = [i \in 1..MaxBackups |-> 0]
    /\ BackupCount = 0
    /\ LastTime = -1
    /\ Now = 0
    /\ spc = "idle"
    /\ sData = 0
    /\ ri = 0
    /\ SaveRet = "none"
    /\ PrevLive = 0
    /\ SaveNo = 0
    /\ Runs = 1
    /\ TestedLast = -1
    /\ Calls = <<>>

NoRestore == [live |-> 0, bak |-> <<>>, count |-> 0, fails |-> {}]

\* RestoreBackup has not been called.
RestoreInit ==
    /\ CorruptFile = 0
    /\ RestoreRet = "none"
    /\ BeforeRestore = NoRestore

NoRead == [op |-> "none", res |-> "none", tell |-> 0, doc |-> <<>>, parsed |-> FALSE]

\* No blob has been written.
HeaderInit ==
    /\ SaveBlob = <<>>
    /\ HeaderOut = NoRead
    /\ Changed = {}

NoArchive == [status |-> "none", records |-> <<>>, index |-> <<>>]
NoReadBack == [status |-> "none", objects |-> <<>>, fields |-> <<>>]

\* No object graph is being saved.
ArchiveInit ==
    /\ Graph = <<>>
    /\ Outer = <<>>
    /\ Archive = NoArchive
    /\ ReadBack = NoReadBack

NoLocation == [status |-> "none", level |-> 0, loc |-> 0, stored |-> 0,
               table |-> <<>>, loaded |-> <<>>]

\* No level offset has been set; every streaming level has its level loaded.
OffsetInit ==
    /\ LevelOffsets = <<>>
    /\ LoadedLevel = <<1, 2>>
    /\ WrittenAt = NoLocation
    /\ ReadAt = NoLocation

\* A value given to LoadState.
Given(state, by) == [state |-> state, by |-> by]

\* A container as constructed: packed, LoadState Uninitialized.
CycleInit ==
    /\ Cycle = 0
    /\ Unpacked = FALSE
    /\ PendingLoads = {}
    /\ CalledBack = {}
    /\ StateLog = <<Given("Uninitialized", "constructor")>>
    /\ SpawnLog = <<>>

NotAsked == [asked |-> FALSE, preloading |-> FALSE, block |-> FALSE,
             completed |-> FALSE, tearing |-> FALSE, CanInitialize |-> TRUE]

\* No blocking pass, no level has been asked about.
GateInit ==
    /\ InBlock = FALSE
    /\ Asked = NotAsked

\* No map change is under way.
CacheInit ==
    /\ IsCachingUnloads = FALSE
    /\ CachedUnloads = <<>>
    /\ MapPhase = "idle"
    /\ Processed = <<>>
    /\ FailedChecks = {}

\* As many components as MaxActors, none of them created yet; both levels
\* are loaded; nothing is registered.
MaxActors == 2
ActorIds == 1..MaxActors
PlayLevels == {1, 2}
NoKey == 0
NoComponent == [play |-> "none", Level |-> 1, TempOverridePersist |-> FALSE,
                IsDynamic |-> FALSE]
TableInit ==
    /\ Comp = [c \in ActorIds |-> NoComponent]
    /\ Table = [k \in PlayLevels \cup {NoKey} |-> {}]
    /\ KeyedLevels = PlayLevels

\* The reader stands at the first object record.
ReadInit ==
    /\ ReadPos = 0
    /\ DeclaredEnd = 0
    /\ NumRead = 0
    /\ ComponentsLeft = 0
    /\ ActorFound = FALSE

LateInit == GateInit /\ CacheInit /\ TableInit /\ ReadInit

SideInit ==
    RestoreInit /\ HeaderInit /\ ArchiveInit /\ OffsetInit /\ CycleInit /\ LateInit

AuxInit == ContainerInit /\ RegistryInit /\ LevelInit /\ BackendInit /\ SideInit

vars == <<jobVars, auxVars>>

mgrVars == <<CurrentSlot, CurrentData, UserProfile, UserIndex,
             NumSavesPending, NumBackgroundJobs>>
lockVars == <<bDisableCommit, bNeverCommit, CommitLockObjects, EngineExit, Holders>>
queueVars == <<ThreadJobs, QueuedJobs, HasRunningThreadJob, ThreadShouldStop, ThreadHasWork>>
workerVars == <<wpc, wJob, wExists, wRestored, wRet>>
diskVars == <<Files, Backups, LastBackupTime>>

\* ------------------------------------------------------------- the header
\* FSaveHeader::Read: the checks in the order the code makes them.  The
\* size test (Size > SaveBlob.Num()) and the CRC comparison both reject a
\* damaged buffer with Corrupt.
HeaderRead(blob) ==
    IF blob.Version < 10 THEN "Corrupt"
    ELSE IF blob.Version > GUNFIRE_PERSISTENCE_VERSION THEN "TooNew"
    ELSE IF blob.Damaged THEN "Corrupt"
    ELSE IF CurrentBuildNumber # 0 /\ blob.BuildNumber > CurrentBuildNumber THEN "TooNew"
    ELSE "Success"

\* UPersistenceManager::WriteSave: header of this build, then the document.
WriteSave(doc) ==
    [Version |-> GUNFIRE_PERSISTENCE_VERSION, Damaged |-> FALSE,
     BuildNumber |-> CurrentBuildNumber, Payload |-> doc.content]

\* UPersistenceManager::VerifySaveIntegrity: the result it stores in Result.
VerifySaveIntegrity(blob) ==
    IF blob = EmptyData THEN "Corrupt" ELSE HeaderRead(blob)

\* UPersistenceManager::ReadSave(SaveBlob, Result): the document returned
\* (NullDoc for nullptr) and the value left in Result.  classFound: whether
\* FindObject / LoadObject comes up with the save game class.
ReadSaveBlob(blob, result, slot, classFound) ==
    IF blob = EmptyData THEN [doc |-> NullDoc, res |-> result]
    ELSE IF HeaderRead(blob) # "Success" THEN [doc |-> NullDoc, res |-> HeaderRead(blob)]
    ELSE IF ~classFound THEN [doc |-> NullDoc, res |-> "Corrupt"]
    ELSE [doc |-> ReadDoc(slot, blob.Payload),
          res |-> IF result = "Restored" THEN "Restored" ELSE "Success"]

\* UPersistenceManager::PreloadSave: FALSE for an empty buffer or a header
\* that does not read; otherwise TRUE, having requested the async load when
\* there are classes to load.
PreloadSave(blob) ==
    blob # EmptyData /\ HeaderRead(blob) = "Success"

\* ------------------------------------------------------------ the backend
JobName(job) == IF job.Type \in ProfileTypes THEN ProfileName ELSE SlotName(job.Slot)

\* The backup chain of a name is <<bak1, ..., bakN>>, N = NumBackups, each
\* a file or NoFile.
EmptyChain == [i \in 1..NumBackups |-> NoFile]

\* FWindowsSaveGameSystem::RestoreBackup, the loop over i with DestRevision
\* = dest: every existing backup moves to the next free destination, the
\* live path first.
RECURSIVE RestoreFrom(_, _, _, _)
RestoreFrom(i, live, chain, dest) ==
    IF i > NumBackups THEN [live |-> live, chain |-> chain, result |-> dest > 0]
    ELSE IF chain[i] # NoFile
         THEN IF dest = 0
              THEN RestoreFrom(i + 1, chain[i], [chain EXCEPT ![i] = NoFile], 1)
              ELSE RestoreFrom(i + 1, live,
                               [chain EXCEPT ![dest] = chain[i], ![i] = NoFile], dest + 1)
         ELSE RestoreFrom(i + 1, live, chain, dest)

\* RestoreBackup(Name): the live file, if any, is first renamed to
\* <path>_<time>.corrupt, so the loop starts without a live file.
RestoreBackup(name) == RestoreFrom(1, NoFile, Backups[name], 0)

\* FWindowsSaveGameSystem::DoesBackupExist
DoesBackupExist(name) == \E i \in 1..NumBackups : Backups[name][i] # NoFile

\* FWindowsSaveGameSystem::RotateBackups, the loop for i = NumBackups-1
\* down to 0: bak<i> moves to bak<i+1>; the live file (i = 0) is copied.
RECURSIVE RotateFrom(_, _, _)
RotateFrom(i, live, chain) ==
    IF i < 0 THEN chain
    ELSE LET cur == IF i = 0 THEN live ELSE chain[i]
         IN IF cur # NoFile
            THEN RotateFrom(i - 1, live,
                            IF i = 0 THEN [chain EXCEPT ![1] = cur]
                            ELSE [chain EXCEPT ![i + 1] = cur, ![i] = NoFile])
            ELSE RotateFrom(i - 1, live, chain)

\* RotateBackups(Name): nothing without backups configured, on the first
\* save of the name in this run, or before the interval has elapsed.
RotateBackups(name, elapsed) ==
    IF NumBackups <= 0 \/ name \notin LastBackupTime \/ ~elapsed THEN Backups[name]
    ELSE RotateFrom(NumBackups - 1, Files[name], Backups[name])

\* What the platform's existence check may answer for a file.
GenericExists(file) ==
    IF file = NoFile THEN {"DoesNotExist", "UnspecifiedError"}
    ELSE IF HeaderRead(file) = "Corrupt" THEN {"OK", "Corrupt", "UnspecifiedError"}
    ELSE {"OK", "UnspecifiedError"}

\* UPersistenceManager::DoesSaveGameExist: ESaveExistsResult to
\* EPersistenceHasResult.
HasResultOf(exists, restored) ==
    IF exists = "OK" THEN (IF restored THEN "Restored" ELSE "Exists")
    ELSE IF exists = "DoesNotExist" THEN "Empty"
    ELSE IF exists = "Corrupt" THEN "Corrupt"
    ELSE "Unknown"

\* ------------------------------------------------------------ observers
Entry(id, via, type, res) == [id |-> id, via |-> via, type |-> type, res |-> res]
StoreCall(op, name, user, data, job) ==
    [op |-> op, name |-> name, user |-> user, data |-> data, job |-> job]
NoStoreCall == StoreCall("none", ProfileName, -1, EmptyData, NoJob)
BoolRes(b) == IF b THEN "true" ELSE "false"

\* ----------------------------------------------------------------- Init
\* Disk contents left by earlier sessions.
DiskImages ==
    { [n \in Names |->
         IF n = SlotName(0) THEN NoFile
         ELSE IF n = SlotName(1) THEN Blob(GUNFIRE_PERSISTENCE_VERSION, FALSE, 0)
         ELSE IF n = ProfileName THEN Blob(GUNFIRE_PERSISTENCE_VERSION, FALSE, 0)
         ELSE NoFile],
      [n \in Names |->
         IF n = SlotName(0) THEN Blob(GUNFIRE_PERSISTENCE_VERSION, TRUE, 0)
         ELSE IF n = SlotName(1) THEN Blob(GUNFIRE_PERSISTENCE_VERSION + 1, FALSE, 0)
         ELSE IF n = ProfileName THEN NoFile
         ELSE Blob(GUNFIRE_PERSISTENCE_VERSION, TRUE, 0)] }
\* Only the damaged save of slot 0 has a backup.
BackupImage(files) ==
    [n \in Names |->
        IF n = SlotName(0) /\ files[n] # NoFile
        THEN [EmptyChain EXCEPT ![1] = Blob(GUNFIRE_PERSISTENCE_VERSION, FALSE, 0)]
        ELSE EmptyChain]

\* The manager and the job system as constructed.
ManagerConstructed ==
    /\ CurrentSlot = -1
    /\ CurrentData = NullDoc
    /\ UserProfile = NullDoc
    /\ UserIndex = 0
    /\ NumSavesPending = 0
    /\ NumBackgroundJobs = 0
    /\ bDisableCommit = FALSE
    /\ bNeverCommit = FALSE
    /\ CommitLockObjects = <<>>
    /\ EngineExit = FALSE
    /\ ThreadJobs = <<>>
    /\ QueuedJobs = {}
    /\ HasRunningThreadJob = FALSE
    /\ ThreadShouldStop = FALSE
    /\ ThreadHasWork = FALSE
    /\ wpc = "loop"
    /\ wJob = NoJob
    /\ wExists = "none"
    /\ wRestored = FALSE
    /\ wRet = TRUE
    /\ GameTasks = <<>>
    /\ gpc = "run"
    /\ ManagerAlive = TRUE
    /\ LastBackupTime = {}
    /\ NextId = 1
    /\ Delivered = <<>>
    /\ LastStoreCall = NoStoreCall
    /\ Holders = {}

\* The manager and the job system as constructed, and the disk.
ManagerInit ==
    /\ ManagerConstructed
    /\ Files \in DiskImages
    /\ Backups = BackupImage(Files)

Init == ManagerInit /\ AuxInit

\* ------------------------------------------------- simulation-thread API
GameThreadRuns == gpc = "run"
CanCall == GameThreadRuns /\ NextId <= MaxCalls

\* QueueJob putting the job at the front of the queue.
QueueJobAtFront(job) ==
    /\ NumBackgroundJobs' = NumBackgroundJobs + 1
    /\ ThreadJobs' = <<job>> \o ThreadJobs
    /\ ThreadHasWork' = TRUE
    /\ NextId' = NextId + 1

\* UPersistenceManager::QueueJob
QueueJob(job) ==
    /\ NumBackgroundJobs' = NumBackgroundJobs + 1
    /\ ThreadJobs' = Append(ThreadJobs, job)
    /\ ThreadHasWork' = TRUE
    /\ NextId' = NextId + 1

LoadProfileSave ==
    /\ CanCall
    /\ QueueJob(NewJob(NextId, "LoadProfile", -1, UserIndex))
    /\ UNCHANGED <<CurrentSlot, CurrentData, UserProfile, UserIndex, NumSavesPending,
                   lockVars, QueuedJobs, HasRunningThreadJob, ThreadShouldStop,
                   workerVars, GameTasks, gpc, ManagerAlive, diskVars,
                   Delivered, LastStoreCall>>
    /\ UNCHANGED auxVars

DeleteProfileSave ==
    /\ CanCall
    /\ UserProfile' = NullDoc
    /\ QueueJob(NewJob(NextId, "DeleteProfile", -1, UserIndex))
    /\ UNCHANGED <<CurrentSlot, CurrentData, UserIndex, NumSavesPending,
                   lockVars, QueuedJobs, HasRunningThreadJob, ThreadShouldStop,
                   workerVars, GameTasks, gpc, ManagerAlive, diskVars,
                   Delivered, LastStoreCall>>
    /\ UNCHANGED auxVars

LoadSave(slot) ==
    /\ CanCall
    /\ CurrentData' = NullDoc
    /\ CurrentSlot' = slot
    /\ QueueJob(NewJob(NextId, "LoadSlot", slot, UserIndex))
    /\ UNCHANGED <<UserProfile, UserIndex, NumSavesPending,
                   lockVars, QueuedJobs, HasRunningThreadJob, ThreadShouldStop,
                   workerVars, GameTasks, gpc, ManagerAlive, diskVars,
                   Delivered, LastStoreCall>>
    /\ UNCHANGED auxVars

ReadSave(slot) ==
    /\ CanCall
    /\ QueueJob(NewJob(NextId, "ReadSlot", slot, UserIndex))
    /\ UNCHANGED <<CurrentSlot, CurrentData, UserProfile, UserIndex, NumSavesPending,
                   lockVars, QueuedJobs, HasRunningThreadJob, ThreadShouldStop,
                   workerVars, GameTasks, gpc, ManagerAlive, diskVars,
                   Delivered, LastStoreCall>>
    /\ UNCHANGED auxVars

HasSave(slot) ==
    /\ CanCall
    /\ QueueJob(NewJob(NextId, "HasSlot", slot, UserIndex))
    /\ UNCHANGED <<CurrentSlot, CurrentData, UserProfile, UserIndex, NumSavesPending,
                   lockVars, QueuedJobs, HasRunningThreadJob, ThreadShouldStop,
                   workerVars, GameTasks, gpc, ManagerAlive, diskVars,
                   Delivered, LastStoreCall>>
    /\ UNCHANGED auxVars

\* DeleteSave; ResetPersistence when the slot is the current one.
DeleteSave(slot) ==
    /\ CanCall
    /\ CurrentSlot' = IF CurrentSlot = slot THEN -1 ELSE CurrentSlot
    /\ CurrentData' = IF CurrentSlot = slot THEN NullDoc ELSE CurrentData
    /\ QueueJob(NewJob(NextId, "DeleteSlot", slot, UserIndex))
    /\ UNCHANGED <<UserProfile, UserIndex, NumSavesPending,
                   lockVars, QueuedJobs, HasRunningThreadJob, ThreadShouldStop,
                   workerVars, GameTasks, gpc, ManagerAlive, diskVars,
                   Delivered, LastStoreCall>>
    /\ UNCHANGED auxVars

\* HasProfileBackup, RestoreProfileBackup, HasSlotBackup, RestoreSlotBackup
BackupOperation(type, slot) ==
    /\ CanCall
    /\ QueueJob(NewJob(NextId, type, slot, UserIndex))
    /\ UNCHANGED <<CurrentSlot, CurrentData, UserProfile, UserIndex, NumSavesPending,
                   lockVars, QueuedJobs, HasRunningThreadJob, ThreadShouldStop,
                   workerVars, GameTasks, gpc, ManagerAlive, diskVars,
                   Delivered, LastStoreCall>>
    /\ UNCHANGED auxVars

\* The refusal tests without the engine-exit test.
\* ------------------------------------------------------ commit: containers
ContainerKeys == {"LevelA", "LevelB"}

\* A container of the current document, as the manager sees it: its key, the
\* length of its header's destroyed list, and (history) the id of the commit
\* that wrote it last, 0 if none did.
Container(key) == [Key |-> key, NumDestroyed |-> 0, Commit |-> 0]

\* GetContainer(Name, false): the index of the first container with that key,
\* 0 for nullptr.
GetContainer(containers, name) ==
    IF \E i \in DOMAIN containers : containers[i].Key = name
    THEN CHOOSE i \in DOMAIN containers :
            /\ containers[i].Key = name
            /\ \A j \in DOMAIN containers : containers[j].Key = name => i <= j
    ELSE 0

\* RegisteredActors.Find: the index of the entry of a name, 0 if none.
FindActors(actors, name) ==
    IF \E i \in DOMAIN actors : actors[i].Key = name
    THEN CHOOSE i \in DOMAIN actors : actors[i].Key = name
    ELSE 0

RemoveAt(seq, i) == SubSeq(seq, 1, i - 1) \o SubSeq(seq, i + 1, Len(seq))

\* RegisteredActors.Remove(Name).
RemoveActors(actors, name) ==
    IF FindActors(actors, name) = 0 THEN actors
    ELSE RemoveAt(actors, FindActors(actors, name))

\* The test of CommitSave's loop: the container has something to save.
InUseByComponentsOnly(num, containers, i) == num > 0
InUse(num, containers, i) ==
    num > 0 \/ (i # 0 /\ containers[i].NumDestroyed > 0)

\* Container->WriteData seen from the manager: the header is reset and holds
\* the index of the components written.
WrittenContainer(c, id) == [c EXCEPT !.NumDestroyed = 0, !.Commit = id]

\* CommitSave's loop over RegisteredActors from entry k on: the containers in
\* use are written (and created first if missing), the names of the others
\* collected in EmptyContainers.
RECURSIVE WriteContainers(_, _, _, _, _)
WriteContainers(actors, k, containers, empty, id) ==
    IF k > Len(actors) THEN [containers |-> containers, empty |-> empty]
    ELSE LET name == actors[k].Key
             i == GetContainer(containers, name)
         IN  IF InUse(actors[k].Num, containers, i)
             THEN LET all == IF i = 0 THEN Append(containers, Container(name))
                             ELSE containers
                      j == IF i = 0 THEN Len(all) ELSE i
                  IN  WriteContainers(actors, k + 1,
                                      [all EXCEPT ![j] = WrittenContainer(@, id)],
                                      empty, id)
             ELSE WriteContainers(actors, k + 1, containers, Append(empty, name), id)

\* DeleteContainer(ContainerName, false): the last container with that key
\* leaves the document, and its name leaves RegisteredActors.
DeleteContainer(st, name) ==
    LET hits == {i \in DOMAIN st.containers : st.containers[i].Key = name}
    IN  IF hits = {} THEN st
        ELSE LET i == CHOOSE h \in hits : \A g \in hits : g <= h
             IN  [containers |-> RemoveAt(st.containers, i),
                  actors |-> RemoveActors(st.actors, name),
                  deleted |-> st.deleted \cup {name}]

RECURSIVE DeleteContainers(_, _)
DeleteContainers(st, names) ==
    IF names = <<>> THEN st
    ELSE DeleteContainers(DeleteContainer(st, Head(names)), Tail(names))

\* The container part of CommitSave, run when there is a current document.
CommitContainers ==
    IF CurrentData = NullDoc THEN UNCHANGED registryVars
    ELSE LET w == WriteContainers(RegisteredActors, 1, Containers, <<>>, NextId)
             d == DeleteContainers([containers |-> w.containers,
                                    actors |-> RegisteredActors,
                                    deleted |-> DeletedLog], w.empty)
         IN  /\ Containers' = d.containers
             /\ RegisteredActors' = d.actors
             /\ DeletedLog' = d.deleted

CommitRefusedNoExitTest == bNeverCommit \/ bDisableCommit

\* CommitSave's refusal tests, in the code's order: bNeverCommit,
\* bDisableCommit, IsEngineExitRequested().
CommitRefused == bNeverCommit \/ bDisableCommit \/ EngineExit

\* The job CommitSave fills in when the current slot is `slot`: the world
\* document is serialized only if there is one and the slot is valid (the
\* session is a server), the profile whenever there is one.
CommitJob(slot) ==
    LET writeWorld == CurrentData # NullDoc /\ slot >= 0
    IN [NewJob(NextId, "Commit", IF writeWorld THEN slot ELSE -1, UserIndex)
          EXCEPT !.WorldData = IF writeWorld THEN WriteSave(CurrentData) ELSE EmptyData,
                 !.ProfileData = IF UserProfile # NullDoc THEN WriteSave(UserProfile)
                                 ELSE EmptyData]

\* CommitSave with CurrentSlot already holding `slot`.
CommitSaveBody(slot) ==
    IF CommitRefused
    THEN /\ Delivered' = Append(Delivered, Entry(NextId, "callback", "Commit", "Disabled"))
         /\ NextId' = NextId + 1
         /\ UNCHANGED <<NumSavesPending, NumBackgroundJobs, ThreadJobs, ThreadHasWork>>
         /\ UNCHANGED registryVars
    ELSE /\ NumSavesPending' = NumSavesPending + 1
         /\ Delivered' = Append(Delivered, Entry(NextId, "event", "PreSave", "none"))
         /\ CommitContainers
         /\ QueueJob(CommitJob(slot))

CommitSave ==
    /\ CanCall
    /\ CommitSaveBody(CurrentSlot)
    /\ UNCHANGED <<CurrentSlot, CurrentData, UserProfile, UserIndex,
                   lockVars, QueuedJobs, HasRunningThreadJob, ThreadShouldStop,
                   workerVars, GameTasks, gpc, ManagerAlive, diskVars, LastStoreCall>>
    /\ UNCHANGED <<containerVars, levelVars, backendVars, sideVars>>

CommitSaveToSlot(slot) ==
    /\ CanCall
    /\ CurrentSlot' = slot
    /\ CommitSaveBody(slot)
    /\ UNCHANGED <<CurrentData, UserProfile, UserIndex,
                   lockVars, QueuedJobs, HasRunningThreadJob, ThreadShouldStop,
                   workerVars, GameTasks, gpc, ManagerAlive, diskVars, LastStoreCall>>
    /\ UNCHANGED <<containerVars, levelVars, backendVars, sideVars>>

\* TArray::AddUnique and TArray::Remove (every matching element).
AddUnique(seq, x) == IF \E i \in 1..Len(seq) : seq[i] = x THEN seq ELSE Append(seq, x)
Remove(seq, x) == SelectSeq(seq, LAMBDA y : y # x)

\* SetDisableCommit keeping one flag for all callers.
SetDisableCommitFlag(disable, context) ==
    /\ GameThreadRuns
    /\ IF context = NullContext
       THEN UNCHANGED <<CommitLockObjects, bDisableCommit>>
       ELSE /\ CommitLockObjects' = IF disable THEN AddUnique(CommitLockObjects, context)
                                    ELSE Remove(CommitLockObjects, context)
            /\ bDisableCommit' = disable
    /\ Holders' = IF context = NullContext THEN Holders
                  ELSE IF disable THEN Holders \cup {context}
                  ELSE Holders \ {context}
    /\ UNCHANGED <<mgrVars, bNeverCommit, EngineExit, queueVars, workerVars, GameTasks,
                   gpc, ManagerAlive, diskVars, NextId, Delivered, LastStoreCall>>
    /\ UNCHANGED auxVars

\* UPersistenceManager::SetDisableCommit(DisableCommit, ContextObject): a
\* null context is rejected; Holders follows the callers.
SetDisableCommit(disable, context) ==
    /\ GameThreadRuns
    /\ IF context = NullContext
       THEN UNCHANGED <<CommitLockObjects, bDisableCommit>>
       ELSE /\ CommitLockObjects' = IF disable THEN AddUnique(CommitLockObjects, context)
                                    ELSE Remove(CommitLockObjects, context)
            /\ bDisableCommit' = (Len(CommitLockObjects') > 0)
    /\ Holders' = IF context = NullContext THEN Holders
                  ELSE IF disable THEN Holders \cup {context}
                  ELSE Holders \ {context}
    /\ UNCHANGED <<mgrVars, bNeverCommit, EngineExit, queueVars, workerVars, GameTasks,
                   gpc, ManagerAlive, diskVars, NextId, Delivered, LastStoreCall>>
    /\ UNCHANGED auxVars

ClearAllCommitLocks ==
    /\ GameThreadRuns
    /\ CommitLockObjects' = <<>>
    /\ bDisableCommit' = FALSE
    /\ Holders' = {}
    /\ UNCHANGED <<mgrVars, bNeverCommit, EngineExit, queueVars, workerVars, GameTasks,
                   gpc, ManagerAlive, diskVars, NextId, Delivered, LastStoreCall>>
    /\ UNCHANGED auxVars

SetNeverCommit ==
    /\ GameThreadRuns
    /\ bNeverCommit' = TRUE
    /\ UNCHANGED <<mgrVars, bDisableCommit, CommitLockObjects, EngineExit, Holders, queueVars,
                   workerVars, GameTasks, gpc, ManagerAlive, diskVars, NextId, Delivered,
                   LastStoreCall>>
    /\ UNCHANGED auxVars

\* The engine requests exit: IsEngineExitRequested() is true from now on.
RequestEngineExit ==
    /\ GameThreadRuns
    /\ EngineExit' = TRUE
    /\ UNCHANGED <<mgrVars, bDisableCommit, CommitLockObjects, bNeverCommit, Holders, queueVars,
                   workerVars, GameTasks, gpc, ManagerAlive, diskVars, NextId, Delivered,
                   LastStoreCall>>
    /\ UNCHANGED auxVars

SetUserIndex(index) ==
    /\ GameThreadRuns
    /\ UserIndex' = index
    /\ UNCHANGED <<CurrentSlot, CurrentData, UserProfile, NumSavesPending, NumBackgroundJobs,
                   lockVars, queueVars, workerVars, GameTasks, gpc, ManagerAlive, diskVars,
                   NextId, Delivered, LastStoreCall>>
    /\ UNCHANGED auxVars

\* InvalidateUser: UserProfile = nullptr; ResetPersistence().
InvalidateUser ==
    /\ GameThreadRuns
    /\ UserProfile' = NullDoc
    /\ CurrentSlot' = -1
    /\ CurrentData' = NullDoc
    /\ UNCHANGED <<UserIndex, NumSavesPending, NumBackgroundJobs,
                   lockVars, queueVars, workerVars, GameTasks, gpc, ManagerAlive, diskVars,
                   NextId, Delivered, LastStoreCall>>
    /\ UNCHANGED auxVars

\* ------------------------------------------------------ the worker thread
Task(kind, job, res) == [kind |-> kind, job |-> job, res |-> res]

\* The dequeue test without the running flag.
DequeueGuardNoFlag == Len(ThreadJobs) > 0

\* Run's dequeue test, made under ThreadJobsLock.
DequeueGuard == ~HasRunningThreadJob /\ Len(ThreadJobs) > 0

\* The case of Run's switch a job type selects.
FirstStep(type) ==
    IF type = "Commit" THEN "commit_world"
    ELSE IF type \in LoadTypes \cup {"HasSlot"} THEN "exists"
    ELSE IF type \in DeleteTypes THEN "delete"
    ELSE "backup"

\* One turn of Run's loop up to the end of the locked block: the test of
\* ThreadShouldStop, then, under ThreadJobsLock, the pop of a job unless one
\* is in flight.  (The stop flag is written only by BeginDestroy, which
\* touches nothing the locked block reads, so the two commute and are one
\* step here.)
W_Dequeue ==
    /\ wpc = "loop"
    /\ IF ThreadShouldStop
       THEN /\ wpc' = "exited"
            /\ UNCHANGED <<HasRunningThreadJob, wJob, ThreadJobs>>
       ELSE IF DequeueGuard
       THEN /\ HasRunningThreadJob' = TRUE
            /\ wJob' = Head(ThreadJobs)
            /\ ThreadJobs' = Tail(ThreadJobs)
            /\ wpc' = FirstStep(Head(ThreadJobs).Type)
       ELSE /\ wpc' = "wait"
            /\ UNCHANGED <<HasRunningThreadJob, wJob, ThreadJobs>>
    /\ UNCHANGED <<mgrVars, lockVars, QueuedJobs, ThreadShouldStop, ThreadHasWork,
                   wExists, wRestored, wRet, GameTasks, gpc, ManagerAlive, diskVars,
                   NextId, Delivered, LastStoreCall>>
    /\ UNCHANGED auxVars

\* ThreadHasWork->Wait() on the auto-reset event: returns once the event is
\* signalled and resets it.
W_Wait ==
    /\ wpc = "wait"
    /\ ThreadHasWork
    /\ ThreadHasWork' = FALSE
    /\ wpc' = "loop"
    /\ UNCHANGED <<mgrVars, lockVars, ThreadJobs, QueuedJobs, HasRunningThreadJob,
                   ThreadShouldStop, wJob, wExists, wRestored, wRet, GameTasks, gpc,
                   ManagerAlive, diskVars, NextId, Delivered, LastStoreCall>>
    /\ UNCHANGED auxVars

\* The UserIndex argument of DoesSaveGameExist and LoadSaveGame: the member
\* is read when Run makes the call, and a repeated turn of the function's
\* loop uses the same argument.
CallUser == IF wRestored THEN LastStoreCall.user ELSE UserIndex

\* FWindowsSaveGameSystem::SaveGame(Name, UserIndex, Data): the temp file is
\* written, the backups rotated, the live file replaced.  ok: the temp file
\* could be written.
SaveGame(name, data, ok, elapsed) ==
    /\ LastStoreCall' = StoreCall("SaveGame", name, UserIndex, data, wJob)
    /\ IF ok
       THEN /\ Backups' = [Backups EXCEPT ![name] = RotateBackups(name, elapsed)]
            /\ LastBackupTime' = IF NumBackups <= 0 THEN LastBackupTime
                                 ELSE LastBackupTime \cup {name}
            /\ Files' = [Files EXCEPT ![name] = data]
       ELSE UNCHANGED <<Files, Backups, LastBackupTime>>

\* case EJobType::Commit, the world save.
W_CommitWorld ==
    /\ wpc = "commit_world"
    /\ wpc' = "commit_profile"
    /\ IF wJob.WorldData # EmptyData
       THEN \E ok \in BOOLEAN, elapsed \in BOOLEAN :
               /\ elapsed => (ok /\ SlotName(wJob.Slot) \in LastBackupTime)
               /\ SaveGame(SlotName(wJob.Slot), wJob.WorldData, ok, elapsed)
               /\ wRet' = ok
       ELSE /\ wRet' = TRUE
            /\ UNCHANGED <<diskVars, LastStoreCall>>
    /\ UNCHANGED <<mgrVars, lockVars, queueVars, wJob, wExists, wRestored,
                   GameTasks, gpc, ManagerAlive, NextId, Delivered>>
    /\ UNCHANGED auxVars

\* case EJobType::Commit, the profile save and the thread hop.
W_CommitProfile ==
    /\ wpc = "commit_profile"
    /\ wpc' = "loop"
    /\ wJob' = NoJob
    /\ IF wRet /\ wJob.ProfileData # EmptyData
       THEN \E ok \in BOOLEAN, elapsed \in BOOLEAN :
               /\ elapsed => (ok /\ ProfileName \in LastBackupTime)
               /\ SaveGame(ProfileName, wJob.ProfileData, ok, elapsed)
               /\ GameTasks' = Append(GameTasks,
                      Task("commit", wJob, IF ok THEN "Success" ELSE "Unknown"))
       ELSE /\ GameTasks' = Append(GameTasks,
                      Task("commit", wJob, IF wRet THEN "Success" ELSE "Unknown"))
            /\ UNCHANGED <<diskVars, LastStoreCall>>
    /\ UNCHANGED <<mgrVars, lockVars, queueVars, wExists, wRestored, wRet,
                   gpc, ManagerAlive, NextId, Delivered>>
    /\ UNCHANGED auxVars

\* The load result Run derives from an existence result that ends the job.
LoadResultOf(has) ==
    IF has = "Corrupt" THEN "Corrupt"
    ELSE IF has = "Unknown" THEN "Unknown"
    ELSE "DoesNotExist"

\* DoesSaveGameExist(SlotName, UserIndex, Result), one turn of the do-while
\* of FWindowsSaveGameSystem::DoesSaveGameExistWithResult; then, when the
\* loop ends, what Run does with the result (cases HasSlot and the load
\* family up to LoadSaveGame).
W_Exists ==
    /\ wpc = "exists"
    /\ LET name == IF wJob.Type = "HasSlot" THEN SlotName(wJob.Slot) ELSE JobName(wJob)
       IN \E r \in GenericExists(Files[name]) :
          LET rb == RestoreBackup(name)
              again == r = "Corrupt" /\ rb.result
              has == HasResultOf(r, wRestored)
          IN /\ LastStoreCall' = StoreCall("DoesSaveGameExist", name, CallUser, EmptyData, wJob)
             /\ IF r = "Corrupt"
                THEN /\ Files' = [Files EXCEPT ![name] = rb.live]
                     /\ Backups' = [Backups EXCEPT ![name] = rb.chain]
                ELSE UNCHANGED <<Files, Backups>>
             /\ IF again
                THEN /\ wRestored' = TRUE
                     /\ UNCHANGED <<wpc, wJob, wExists, GameTasks>>
                ELSE IF wJob.Type = "HasSlot"
                THEN /\ GameTasks' = Append(GameTasks, Task("has", wJob, has))
                     /\ wpc' = "loop"
                     /\ wJob' = NoJob
                     /\ wRestored' = FALSE
                     /\ UNCHANGED wExists
                ELSE IF has \in {"Corrupt", "Unknown", "Empty"}
                THEN /\ GameTasks' = Append(GameTasks, Task("load", wJob, LoadResultOf(has)))
                     /\ wpc' = "loop"
                     /\ wJob' = NoJob
                     /\ wRestored' = FALSE
                     /\ UNCHANGED wExists
                ELSE /\ wExists' = has
                     /\ wRestored' = FALSE
                     /\ wpc' = "load"
                     /\ UNCHANGED <<wJob, GameTasks>>
    /\ UNCHANGED <<mgrVars, lockVars, queueVars, wRet, gpc, ManagerAlive,
                   LastBackupTime, NextId, Delivered>>
    /\ UNCHANGED auxVars

\* The job's buffer a load-family job reads into.
WithData(job, data) ==
    IF job.Type = "LoadProfile" THEN [job EXCEPT !.ProfileData = data]
    ELSE [job EXCEPT !.WorldData = data]
JobData(job) == IF job.Type = "LoadProfile" THEN job.ProfileData ELSE job.WorldData

\* UPersistenceManager::LoadSaveGame, one turn of its do-while; when the
\* loop ends, Run's Restored adjustment and the thread hop.
W_Load ==
    /\ wpc = "load"
    /\ LET name == JobName(wJob)
           file == Files[name]
           loaded == file # NoFile
           job == IF loaded THEN WithData(wJob, file) ELSE wJob
           verify == VerifySaveIntegrity(file)
           out == IF ~loaded THEN "Unknown"
                  ELSE IF verify = "Success"
                       THEN (IF wRestored THEN "Restored" ELSE "Success")
                       ELSE verify
           rb == RestoreBackup(name)
           again == out = "Corrupt" /\ rb.result
           result == IF out = "Success" /\ wExists = "Restored" THEN "Restored" ELSE out
       IN /\ LastStoreCall' = StoreCall("LoadGame", name, CallUser, EmptyData, wJob)
          /\ IF out = "Corrupt"
             THEN /\ Files' = [Files EXCEPT ![name] = rb.live]
                  /\ Backups' = [Backups EXCEPT ![name] = rb.chain]
             ELSE UNCHANGED <<Files, Backups>>
          /\ IF again
             THEN /\ wRestored' = TRUE
                  /\ wJob' = job
                  /\ UNCHANGED <<wpc, wExists, GameTasks>>
             ELSE /\ GameTasks' = Append(GameTasks,
                         Task("load", [job EXCEPT !.restored = (result = "Restored")],
                              result))
                  /\ wpc' = "loop"
                  /\ wJob' = NoJob
                  /\ wExists' = "none"
                  /\ wRestored' = FALSE
    /\ UNCHANGED <<mgrVars, lockVars, queueVars, wRet, gpc, ManagerAlive,
                   LastBackupTime, NextId, Delivered>>
    /\ UNCHANGED auxVars

\* cases DeleteSlot and DeleteProfile: DeleteGame succeeds when the file
\* was there.
W_Delete ==
    /\ wpc = "delete"
    /\ LET name == JobName(wJob)
       IN /\ LastStoreCall' = StoreCall("DeleteGame", name, UserIndex, EmptyData, wJob)
          /\ Files' = [Files EXCEPT ![name] = NoFile]
          /\ GameTasks' = Append(GameTasks, Task("delete", wJob, BoolRes(Files[name] # NoFile)))
    /\ wpc' = "loop"
    /\ wJob' = NoJob
    /\ UNCHANGED <<mgrVars, lockVars, queueVars, wExists, wRestored, wRet, gpc,
                   ManagerAlive, Backups, LastBackupTime, NextId, Delivered>>
    /\ UNCHANGED auxVars

\* cases HasSlotBackup, HasProfileBackup, RestoreSlotBackup and
\* RestoreProfileBackup.
W_Backup ==
    /\ wpc = "backup"
    /\ LET name == JobName(wJob)
           rb == RestoreBackup(name)
       IN IF wJob.Type \in {"RestoreSlotBackup", "RestoreProfileBackup"}
          THEN /\ Files' = [Files EXCEPT ![name] = rb.live]
               /\ Backups' = [Backups EXCEPT ![name] = rb.chain]
               /\ GameTasks' = Append(GameTasks, Task("backup", wJob, BoolRes(rb.result)))
          ELSE /\ GameTasks' = Append(GameTasks,
                                      Task("backup", wJob, BoolRes(DoesBackupExist(name))))
               /\ UNCHANGED <<Files, Backups>>
    /\ wpc' = "loop"
    /\ wJob' = NoJob
    /\ UNCHANGED <<mgrVars, lockVars, queueVars, wExists, wRestored, wRet, gpc,
                   ManagerAlive, LastBackupTime, NextId, Delivered, LastStoreCall>>
    /\ UNCHANGED auxVars

\* ------------------------------------------- thread hops (game thread)
TaskReady(kind) ==
    /\ gpc \in {"run", "destroyed"}
    /\ GameTasks # <<>>
    /\ Head(GameTasks).kind = kind

\* FreeThreadJob that does not signal the worker's event.
FreeThreadJobNoTrigger ==
    IF ManagerAlive
    THEN /\ NumBackgroundJobs' = NumBackgroundJobs - 1
         /\ HasRunningThreadJob' = FALSE
         /\ UNCHANGED ThreadHasWork
    ELSE UNCHANGED <<NumBackgroundJobs, HasRunningThreadJob, ThreadHasWork>>

\* UPersistenceManager::FreeThreadJob: with the manager gone the job is
\* only deleted.
FreeThreadJob ==
    IF ManagerAlive
    THEN /\ NumBackgroundJobs' = NumBackgroundJobs - 1
         /\ HasRunningThreadJob' = FALSE
         /\ ThreadHasWork' = TRUE
    ELSE UNCHANGED <<NumBackgroundJobs, HasRunningThreadJob, ThreadHasWork>>

\* CommitSaveDone without the OnSaveGame broadcast.
GT_CommitDoneNoEvent ==
    /\ TaskReady("commit")
    /\ LET t == Head(GameTasks)
       IN IF ManagerAlive
          THEN /\ NumSavesPending' = NumSavesPending - 1
               /\ Delivered' = Append(Delivered, Entry(t.job.id, "callback", "Commit", t.res))
          ELSE UNCHANGED <<NumSavesPending, Delivered>>
    /\ FreeThreadJob
    /\ GameTasks' = Tail(GameTasks)
    /\ UNCHANGED <<CurrentSlot, CurrentData, UserProfile, UserIndex, lockVars,
                   ThreadJobs, QueuedJobs, ThreadShouldStop, workerVars, gpc,
                   ManagerAlive, diskVars, NextId, LastStoreCall>>
    /\ UNCHANGED auxVars

\* CommitSaveDone, then FreeThreadJob.
GT_CommitDone ==
    /\ TaskReady("commit")
    /\ LET t == Head(GameTasks)
       IN IF ManagerAlive
          THEN /\ NumSavesPending' = NumSavesPending - 1
               /\ Delivered' = Delivered \o <<Entry(t.job.id, "callback", "Commit", t.res),
                                              Entry(t.job.id, "event", "OnSaveGame", t.res)>>
          ELSE UNCHANGED <<NumSavesPending, Delivered>>
    /\ FreeThreadJob
    /\ GameTasks' = Tail(GameTasks)
    /\ UNCHANGED <<CurrentSlot, CurrentData, UserProfile, UserIndex, lockVars,
                   ThreadJobs, QueuedJobs, ThreadShouldStop, workerVars, gpc,
                   ManagerAlive, diskVars, NextId, LastStoreCall>>
    /\ UNCHANGED auxVars

\* HasSaveDone, then FreeThreadJob.
GT_HasDone ==
    /\ TaskReady("has")
    /\ LET t == Head(GameTasks)
       IN Delivered' = IF ManagerAlive
                       THEN Append(Delivered, Entry(t.job.id, "callback", t.job.Type, t.res))
                       ELSE Delivered
    /\ FreeThreadJob
    /\ GameTasks' = Tail(GameTasks)
    /\ UNCHANGED <<CurrentSlot, CurrentData, UserProfile, UserIndex, NumSavesPending,
                   lockVars, ThreadJobs, QueuedJobs, ThreadShouldStop, workerVars, gpc,
                   ManagerAlive, diskVars, NextId, LastStoreCall>>
    /\ UNCHANGED auxVars

\* DeleteSaveDone (Run calls it for DeleteSlot and DeleteProfile alike),
\* then FreeThreadJob.
GT_DeleteDone ==
    /\ TaskReady("delete")
    /\ LET t == Head(GameTasks)
       IN Delivered' = IF ManagerAlive
                       THEN Delivered \o <<Entry(t.job.id, "callback", t.job.Type, t.res),
                                           Entry(t.job.id, "event", "OnDeleteGame", t.res)>>
                       ELSE Delivered
    /\ FreeThreadJob
    /\ GameTasks' = Tail(GameTasks)
    /\ UNCHANGED <<CurrentSlot, CurrentData, UserProfile, UserIndex, NumSavesPending,
                   lockVars, ThreadJobs, QueuedJobs, ThreadShouldStop, workerVars, gpc,
                   ManagerAlive, diskVars, NextId, LastStoreCall>>
    /\ UNCHANGED auxVars

\* BackupOperationDone, then FreeThreadJob.
GT_BackupDone ==
    /\ TaskReady("backup")
    /\ LET t == Head(GameTasks)
       IN Delivered' = IF ManagerAlive
                       THEN Append(Delivered, Entry(t.job.id, "callback", t.job.Type, t.res))
                       ELSE Delivered
    /\ FreeThreadJob
    /\ GameTasks' = Tail(GameTasks)
    /\ UNCHANGED <<CurrentSlot, CurrentData, UserProfile, UserIndex, NumSavesPending,
                   lockVars, ThreadJobs, QueuedJobs, ThreadShouldStop, workerVars, gpc,
                   ManagerAlive, diskVars, NextId, LastStoreCall>>
    /\ UNCHANGED auxVars

\* LoadSaveDone(Job, Result)
LoadSaveDone(job, result, classFound) ==
    LET read == ReadSaveBlob(job.WorldData, result, job.Slot, classFound)
        loaded == result \in {"Success", "Restored"}
        res == IF loaded THEN read.res ELSE result
    IN /\ CurrentData' = IF loaded THEN read.doc
                         ELSE IF result = "DoesNotExist" THEN NewDoc(job.Slot, job.id)
                         ELSE CurrentData
       /\ Delivered' = Delivered \o <<Entry(job.id, "callback", "LoadSlot", res),
                                      Entry(job.id, "event", "OnLoadGame", res)>>
       /\ UNCHANGED UserProfile

\* LoadProfileSaveDone(Job, Result)
LoadProfileSaveDone(job, result, classFound) ==
    LET read == ReadSaveBlob(job.ProfileData, result, -1, classFound)
        loaded == result \in {"Success", "Restored"}
        res == IF loaded THEN read.res ELSE result
    IN /\ UserProfile' = IF loaded THEN read.doc
                         ELSE IF result = "DoesNotExist" THEN NewDoc(-1, job.id)
                         ELSE UserProfile
       /\ Delivered' = Delivered \o <<Entry(job.id, "callback", "LoadProfile", res),
                                      Entry(job.id, "event", "OnLoadProfile", res)>>
       /\ UNCHANGED CurrentData

\* ReadSaveDone that keeps the document it read as the current one.
ReadSaveDoneCaches(job, result, classFound) ==
    LET read == ReadSaveBlob(job.WorldData, result, job.Slot, classFound)
        res == IF result \in {"Success", "Restored"} THEN read.res ELSE result
    IN /\ Delivered' = Append(Delivered, Entry(job.id, "callback", "ReadSlot", res))
       /\ CurrentData' = read.doc
       /\ UNCHANGED UserProfile

\* ReadSaveDone(Job, Result)
ReadSaveDone(job, result, classFound) ==
    LET read == ReadSaveBlob(job.WorldData, result, job.Slot, classFound)
        res == IF result \in {"Success", "Restored"} THEN read.res ELSE result
    IN /\ Delivered' = Append(Delivered, Entry(job.id, "callback", "ReadSlot", res))
       /\ UNCHANGED <<CurrentData, UserProfile>>

\* The completion function of a load-family job, by job type.
LoadFamilyDone(job, result, classFound) ==
    IF job.Type = "LoadSlot" THEN LoadSaveDone(job, result, classFound)
    ELSE IF job.Type = "LoadProfile" THEN LoadProfileSaveDone(job, result, classFound)
    ELSE ReadSaveDone(job, result, classFound)

\* Parking that releases the worker for the next job.
ParkClearsRunning ==
    /\ HasRunningThreadJob' = FALSE
    /\ ThreadHasWork' = TRUE
    /\ UNCHANGED NumBackgroundJobs

\* What the result dispatch of a load-family job does with the running
\* flag when it parks the job for an async class load: nothing.
ParkKeepsRunning == UNCHANGED <<NumBackgroundJobs, HasRunningThreadJob, ThreadHasWork>>

\* The thread hop of a load-family job: PreloadSave, then either the job is
\* parked in QueuedJobs until its classes are loaded (needLoad), or it is
\* completed and freed.
GT_LoadDispatch ==
    /\ TaskReady("load")
    /\ LET t == Head(GameTasks)
           mayPark == /\ ManagerAlive
                      /\ t.res \in {"Success", "Restored"}
                      /\ PreloadSave(JobData(t.job))
       IN \E needLoad \in BOOLEAN :
            /\ needLoad => mayPark
            /\ IF needLoad
               THEN /\ QueuedJobs' = QueuedJobs \cup {[t.job EXCEPT !.AsyncLoad = TRUE]}
                    /\ ParkKeepsRunning
                    /\ UNCHANGED <<CurrentData, UserProfile, Delivered>>
               ELSE /\ IF ManagerAlive
                       THEN LoadFamilyDone(t.job, t.res, TRUE)
                       ELSE UNCHANGED <<CurrentData, UserProfile, Delivered>>
                    /\ FreeThreadJob
                    /\ UNCHANGED QueuedJobs
    /\ GameTasks' = Tail(GameTasks)
    /\ UNCHANGED <<CurrentSlot, UserIndex, NumSavesPending, lockVars, ThreadJobs,
                   ThreadShouldStop, workerVars, gpc, ManagerAlive, diskVars, NextId,
                   LastStoreCall>>
    /\ UNCHANGED auxVars

\* UPersistenceManager::OnSaveClassesLoaded, called by the asset loader on
\* the game thread when the classes of a parked job are loaded.
OnSaveClassesLoaded ==
    /\ GameThreadRuns
    /\ \E job \in QueuedJobs :
         /\ QueuedJobs' = QueuedJobs \ {job}
         /\ GameTasks' = Append(GameTasks, Task("resume", job, "Success"))
    /\ UNCHANGED <<mgrVars, lockVars, ThreadJobs, HasRunningThreadJob, ThreadShouldStop,
                   ThreadHasWork, workerVars, gpc, ManagerAlive, diskVars, NextId,
                   Delivered, LastStoreCall>>
    /\ UNCHANGED auxVars

\* The task OnSaveClassesLoaded queues: the job's completion function with
\* Success, then FreeThreadJob.  classFound: the class load brought the
\* save game class.
GT_Resume ==
    /\ TaskReady("resume")
    /\ LET t == Head(GameTasks)
       IN IF ManagerAlive
          THEN \E classFound \in BOOLEAN : LoadFamilyDone(t.job, "Success", classFound)
          ELSE UNCHANGED <<CurrentData, UserProfile, Delivered>>
    /\ FreeThreadJob
    /\ GameTasks' = Tail(GameTasks)
    /\ UNCHANGED <<CurrentSlot, UserIndex, NumSavesPending, lockVars, ThreadJobs,
                   QueuedJobs, ThreadShouldStop, workerVars, gpc, ManagerAlive, diskVars,
                   NextId, LastStoreCall>>
    /\ UNCHANGED auxVars

\* --------------------------------------------------------------- teardown
\* BeginDestroy without ThreadHasWork->Trigger().
BeginDestroyNoTrigger ==
    /\ GameThreadRuns
    /\ gpc' = "destroy_wait"
    /\ ManagerAlive' = FALSE
    /\ QueuedJobs' = {}
    /\ ThreadShouldStop' = TRUE
    /\ UNCHANGED <<mgrVars, lockVars, ThreadJobs, HasRunningThreadJob, ThreadHasWork,
                   workerVars, GameTasks, diskVars, NextId, Delivered, LastStoreCall>>
    /\ UNCHANGED auxVars

\* BeginDestroy leaving the jobs' weak pointers to the manager valid.
BeginDestroyManagerValid ==
    /\ GameThreadRuns
    /\ gpc' = "destroy_wait"
    /\ QueuedJobs' = {}
    /\ ThreadShouldStop' = TRUE
    /\ ThreadHasWork' = TRUE
    /\ UNCHANGED <<mgrVars, lockVars, ThreadJobs, HasRunningThreadJob, workerVars,
                   GameTasks, ManagerAlive, diskVars, NextId, Delivered, LastStoreCall>>
    /\ UNCHANGED auxVars

\* UPersistenceManager::BeginDestroy up to Thread->WaitForCompletion(): the
\* parked jobs' loads are cancelled, the worker told to stop and woken.
BeginDestroy ==
    /\ GameThreadRuns
    /\ gpc' = "destroy_wait"
    /\ ManagerAlive' = FALSE
    /\ QueuedJobs' = {}
    /\ ThreadShouldStop' = TRUE
    /\ ThreadHasWork' = TRUE
    /\ UNCHANGED <<mgrVars, lockVars, ThreadJobs, HasRunningThreadJob, workerVars,
                   GameTasks, diskVars, NextId, Delivered, LastStoreCall>>
    /\ UNCHANGED auxVars

\* BeginDestroy after the join: the jobs still queued are deleted.
BeginDestroyJoined ==
    /\ gpc = "destroy_wait"
    /\ wpc = "exited"
    /\ gpc' = "destroyed"
    /\ ThreadJobs' = <<>>
    /\ UNCHANGED <<mgrVars, lockVars, QueuedJobs, HasRunningThreadJob, ThreadShouldStop,
                   ThreadHasWork, workerVars, GameTasks, ManagerAlive, diskVars, NextId,
                   Delivered, LastStoreCall>>
    /\ UNCHANGED auxVars

\* ------------------------------------------------------------------ Next
Worker ==
    \/ W_Dequeue \/ W_Wait
    \/ W_CommitWorld \/ W_CommitProfile
    \/ W_Exists \/ W_Load \/ W_Delete \/ W_Backup

ThreadHops ==
    \/ GT_CommitDone \/ GT_HasDone \/ GT_DeleteDone \/ GT_BackupDone
    \/ GT_LoadDispatch \/ GT_Resume

JobCalls ==
    \/ LoadProfileSave
    \/ DeleteProfileSave
    \/ \E slot \in Slots : LoadSave(slot)
    \/ \E slot \in Slots : ReadSave(slot)
    \/ \E slot \in Slots : HasSave(slot)
    \/ \E slot \in Slots : DeleteSave(slot)
    \/ \E type \in {"HasProfileBackup", "RestoreProfileBackup"} : BackupOperation(type, -1)
    \/ \E type \in {"HasSlotBackup", "RestoreSlotBackup"}, slot \in Slots :
          BackupOperation(type, slot)
    \/ CommitSave
    \/ \E slot \in Slots : CommitSaveToSlot(slot)

Next ==
    \/ JobCalls
    \/ InvalidateUser
    \/ OnSaveClassesLoaded
    \/ ThreadHops
    \/ Worker

\* The job system: every queueing call, every job type, the worker and the
\* thread hops.
Spec == Init /\ [][Next]_vars

\* Progress of the job system: one call of every kind of job (load family,
\* existence query, delete, commit, backup query and restore), every worker
\* step and every thread hop.
FairNext ==
    \/ LoadProfileSave
    \/ DeleteProfileSave
    \/ CommitSave
    \/ \E slot \in Slots : HasSave(slot)
    \/ \E type \in {"HasProfileBackup", "RestoreProfileBackup"} : BackupOperation(type, -1)
    \/ OnSaveClassesLoaded
    \/ ThreadHops
    \/ Worker

\* The worker thread keeps running, the game thread keeps running its
\* tasks, and the asset loader completes every load it was asked for.
FairSpec ==
    /\ Init /\ [][FairNext]_vars
    /\ WF_vars(Worker)
    /\ WF_vars(ThreadHops)
    /\ WF_vars(OnSaveClassesLoaded)

\* Commit gating: the commit locks, the session switches and commits, with
\* the profile load to give the commits a document to write.
LockNext ==
    \/ \E disable \in BOOLEAN, context \in Contexts \cup {NullContext} :
          SetDisableCommit(disable, context)
    \/ ClearAllCommitLocks
    \/ SetNeverCommit
    \/ RequestEngineExit
    \/ CommitSave
    \/ LoadProfileSave
    \/ OnSaveClassesLoaded
    \/ GT_CommitDone \/ GT_LoadDispatch \/ GT_Resume
    \/ W_Dequeue \/ W_Wait \/ W_CommitWorld \/ W_CommitProfile \/ W_Exists \/ W_Load

LockSpec == Init /\ [][LockNext]_vars

\* User switching while jobs are queued: profile loads, profile deletes and
\* commits with SetUserIndex called at any moment.
UserNext ==
    \/ \E index \in Users : SetUserIndex(index)
    \/ LoadProfileSave
    \/ DeleteProfileSave
    \/ CommitSave
    \/ OnSaveClassesLoaded
    \/ GT_CommitDone \/ GT_LoadDispatch \/ GT_Resume \/ GT_DeleteDone
    \/ W_Dequeue \/ W_Wait \/ W_CommitWorld \/ W_CommitProfile \/ W_Exists \/ W_Load
    \/ W_Delete

UserSpec == Init /\ [][UserNext]_vars

\* Teardown of the manager while jobs are queued or in flight.
TeardownNext ==
    \/ \E slot \in Slots : LoadSave(slot)
    \/ CommitSave
    \/ OnSaveClassesLoaded
    \/ GT_CommitDone \/ GT_LoadDispatch \/ GT_Resume
    \/ W_Dequeue \/ W_Wait \/ W_CommitWorld \/ W_CommitProfile \/ W_Exists \/ W_Load
    \/ BeginDestroy
    \/ BeginDestroyJoined

TeardownSpec == Init /\ [][TeardownNext]_vars

\* ============================================================ properties
\* The ids of the jobs in flight: dequeued by the worker and not yet freed
\* (in the worker's hands, in a thread hop, or parked for a class load).
InFlightIds ==
    (IF wJob # NoJob THEN {wJob.id} ELSE {})
        \cup {GameTasks[i].job.id : i \in DOMAIN GameTasks}
        \cup {job.id : job \in QueuedJobs}
\* The ids of the jobs waiting in the queue, in queue order.
WaitingIds == [i \in DOMAIN ThreadJobs |-> ThreadJobs[i].id]
\* The completion callbacks of background jobs, in delivery order (a
\* refused commit's callback is not one: it never was a job).
JobCallbacks == SelectSeq(Delivered, LAMBDA e : e.via = "callback" /\ e.res # "Disabled")

\* C1: at most one job is in flight at any time; a job in flight holds the
\* running flag from its dequeue until it is freed on the simulation
\* thread, so the worker dequeues no other job in between.
C1_OneJobInFlight ==
    /\ Cardinality(InFlightIds) <= 1
    /\ InFlightIds # {} => HasRunningThreadJob
    /\ wpc \in {"commit_world", "commit_profile", "exists", "load", "delete", "backup"}
          <=> wJob # NoJob

\* C1 witness: a second job waits in the queue while the worker idles on
\* its wait handle, the first job being in its thread hop.
C1_Witness ==
    /\ GameTasks # <<>>
    /\ Len(ThreadJobs) > 0
    /\ wpc = "wait"
    /\ HasRunningThreadJob

\* C2: jobs are dequeued in the order they were queued and their results
\* are delivered in that order: delivered ids ascend, every delivered id is
\* below the id in flight, and that one is below every id still waiting.
C2_QueueOrder ==
    /\ \A i, j \in DOMAIN JobCallbacks : i < j => JobCallbacks[i].id < JobCallbacks[j].id
    /\ \A i, j \in DOMAIN WaitingIds : i < j => WaitingIds[i] < WaitingIds[j]
    /\ \A f \in InFlightIds : \A i \in DOMAIN WaitingIds : f < WaitingIds[i]
    /\ \A i \in DOMAIN JobCallbacks :
          /\ \A f \in InFlightIds : JobCallbacks[i].id < f
          /\ \A k \in DOMAIN WaitingIds : JobCallbacks[i].id < WaitingIds[k]

\* C2 witness: two jobs have had their results delivered.
C2_Witness == Len(JobCallbacks) >= 2

\* C3 as stated: with a job parked for its class load, the worker is free
\* to dequeue the next queued job.
C3_WorkerFreeWhileParked ==
    (QueuedJobs # {} /\ Len(ThreadJobs) > 0) => DequeueGuard

\* C3 amended: a parked job does not keep the worker inside the job (the
\* worker is back in its loop or asleep on the wait handle), but it still
\* is the job in flight: the running flag stays set and the worker holds no
\* other job until the parked one is completed and freed.
C3_ParkedJobStaysInFlight ==
    QueuedJobs # {} =>
        /\ HasRunningThreadJob
        /\ wJob = NoJob
        /\ wpc \in {"loop", "wait"}
        /\ Cardinality(QueuedJobs) = 1
        /\ \A job \in QueuedJobs : job.Type \in LoadTypes /\ job.AsyncLoad

\* C3 witness: a job is parked, another waits in the queue, and the worker
\* sleeps.
C3_Witness ==
    /\ QueuedJobs # {}
    /\ Len(ThreadJobs) > 0
    /\ wpc = "wait"
    /\ ~ThreadHasWork

\* The job with call id `id` has been queued / has had its result delivered.
WasQueued(id) ==
    \/ id \in InFlightIds
    \/ \E i \in DOMAIN ThreadJobs : ThreadJobs[i].id = id
    \/ \E i \in DOMAIN JobCallbacks : JobCallbacks[i].id = id
ResultDelivered(id) == \E i \in DOMAIN JobCallbacks : JobCallbacks[i].id = id

\* C4: with the manager alive and the worker, the game thread's tasks and
\* the class loads all making progress, every queued job eventually has its
\* result delivered, and never more than once; the worker does not stay
\* asleep while a job is queued and none is in flight.
C4_EveryJobDelivered ==
    /\ \A id \in 1..MaxCalls : WasQueued(id) ~> ResultDelivered(id)
    /\ [](\A i, j \in DOMAIN JobCallbacks :
             JobCallbacks[i].id = JobCallbacks[j].id => i = j)
    /\ (Len(ThreadJobs) > 0 /\ ~HasRunningThreadJob /\ wpc = "wait") ~> (wpc # "wait")

\* C4 witness: every call's job has been delivered and the worker is asleep
\* again with nothing signalled.
C4_Witness ==
    /\ Len(JobCallbacks) = MaxCalls
    /\ wpc = "wait"
    /\ ~ThreadHasWork
    /\ ThreadJobs = <<>>

\* The callback of a refused commit, as CommitSave invokes it.
RefusedCallback == Entry(NextId, "callback", "Commit", "Disabled")

C6_DisabledWhileHeld ==
    /\ [](bDisableCommit <=> Holders # {})
    /\ [][CommitSave =>
            ((Delivered' = Append(Delivered, RefusedCallback))
                <=> (Holders # {} \/ bNeverCommit \/ EngineExit))]_vars
    /\ [][ClearAllCommitLocks => ~bDisableCommit']_vars

\* C6 witness: one caller still holds its lock after another lock-holder
\* order has been released (the surviving holder is the later context), and
\* a commit has been refused for that reason alone.
C6_Witness ==
    /\ Cardinality(Holders) = 1
    /\ CommitLockObjects = <<NumContexts>>
    /\ ~bNeverCommit /\ ~EngineExit
    /\ Delivered # <<>>
    /\ Delivered[Len(Delivered)].res = "Disabled"

\* The commit callbacks and OnSaveGame broadcasts delivered so far.
CommitCallbacks == SelectSeq(Delivered, LAMBDA e : e.via = "callback" /\ e.type = "Commit")
SaveEvents == SelectSeq(Delivered, LAMBDA e : e.type = "OnSaveGame")

\* C7 as stated: every commit reported through its callback, refused ones
\* included, is also reported through OnSaveGame with the same result.
C7_EveryCommitBroadcast ==
    \A i \in DOMAIN CommitCallbacks :
       \E j \in DOMAIN SaveEvents :
          /\ SaveEvents[j].id = CommitCallbacks[i].id
          /\ SaveEvents[j].res = CommitCallbacks[i].res

\* C7 amended: no commit call is dropped: a refused one has its callback
\* invoked with Disabled at the call and OnSaveGame is not broadcast for
\* it; a queued one is reported when its job is done, through its callback
\* and through OnSaveGame with the same result.
C7_CommitReported ==
    /\ \A id \in 1..(NextId - 1) :
          WasQueued(id) \/ \E i \in DOMAIN CommitCallbacks : CommitCallbacks[i].id = id
    /\ \A i \in DOMAIN CommitCallbacks :
          LET e == CommitCallbacks[i]
              events == {j \in DOMAIN SaveEvents : SaveEvents[j].id = e.id}
          IN IF e.res = "Disabled"
             THEN events = {}
             ELSE Cardinality(events) = 1 /\ \A j \in events : SaveEvents[j].res = e.res
    /\ \A j \in DOMAIN SaveEvents :
          \E i \in DOMAIN CommitCallbacks : CommitCallbacks[i].id = SaveEvents[j].id

\* C7 witness: one commit was refused and another was queued and done,
\* both reported.
C7_Witness ==
    /\ \E i \in DOMAIN CommitCallbacks : CommitCallbacks[i].res = "Disabled"
    /\ \E i \in DOMAIN CommitCallbacks : CommitCallbacks[i].res # "Disabled"
    /\ SaveEvents # <<>>

\* C8: a storage call addresses the user, the name and the bytes that were
\* fixed when its job was queued.
C8_StorageCallFixedAtQueue ==
    LastStoreCall.op # "none" =>
        /\ LastStoreCall.user = LastStoreCall.job.qUser
        /\ LastStoreCall.name \in {JobName(LastStoreCall.job), ProfileName}
        /\ LastStoreCall.op = "SaveGame" =>
              LastStoreCall.data \in {LastStoreCall.job.WorldData,
                                      LastStoreCall.job.ProfileData}

\* A LoadSlot job completes with result r: LoadSaveDone invokes the
\* callback and broadcasts OnLoadGame.
LoadSlotCompletes(r) ==
    \E id \in 1..MaxCalls :
        Delivered' = Delivered \o <<Entry(id, "callback", "LoadSlot", r),
                                    Entry(id, "event", "OnLoadGame", r)>>

\* C9: LoadSave(slot) sets the current slot and clears the current
\* document at the call; at completion the current document is a fresh
\* document for DoesNotExist, the document read for Success and Restored,
\* and null for Corrupt, TooNew and Unknown.
C9_LoadSaveOutcome ==
    [][/\ \A slot \in Slots :
             LoadSave(slot) => (CurrentSlot' = slot /\ CurrentData' = NullDoc)
       /\ LoadSlotCompletes("DoesNotExist") =>
             (CurrentData'.origin = "new" /\ CurrentData' # CurrentData)
       /\ (LoadSlotCompletes("Success") \/ LoadSlotCompletes("Restored")) =>
             CurrentData'.origin = "read"
       /\ (LoadSlotCompletes("Corrupt") \/ LoadSlotCompletes("TooNew")
              \/ LoadSlotCompletes("Unknown")) =>
             CurrentData' = NullDoc]_vars

\* A step of a ReadSlot job: the ReadSave call, the worker's steps on the
\* job, its thread hops and its class load.
ReadJobStep ==
    \/ \E slot \in Slots : ReadSave(slot)
    \/ wJob.Type = "ReadSlot" /\ Worker
    \/ GameTasks # <<>> /\ Head(GameTasks).job.Type = "ReadSlot" /\ ThreadHops
    \/ /\ OnSaveClassesLoaded
       /\ \E job \in QueuedJobs : job.Type = "ReadSlot" /\ job \notin QueuedJobs'

\* C10: no step of a ReadSlot job, from the ReadSave call to the delivery
\* of its result, changes the current slot or the current document.
C10_ReadSaveKeepsCurrent ==
    [][ReadJobStep => UNCHANGED <<CurrentSlot, CurrentData>>]_vars

\* C10 witness: a read has delivered a document while the manager has a
\* different current document, loaded before.
C10_Witness ==
    /\ \E i \in DOMAIN Delivered :
          Delivered[i].type = "ReadSlot" /\ Delivered[i].res = "Success"
    /\ CurrentData.origin = "new"

\* The completion callback of a load-family job that step delivers, if any.
LoadCallbackOf(job) ==
    {Delivered'[i] : i \in {k \in (Len(Delivered) + 1)..Len(Delivered') :
                               /\ Delivered'[k].id = job.id
                               /\ Delivered'[k].via = "callback"}}

\* C11: a load-family job whose storage read replaced a corrupt save by a
\* backup does not complete with Success: its callback gets Restored (or
\* the failure of reading the document), on the direct path and on the path
\* through the class load alike.
C11_RestoredIsReported ==
    [][\A i \in DOMAIN GameTasks :
          (i = 1 /\ GameTasks[i].job.restored) =>
             \A e \in LoadCallbackOf(GameTasks[i].job) : e.res # "Success"]_vars

\* ============================================================ container
\* UPersistenceContainer.  The blob is a sequence of cells, one cell per
\* serialized field; offsets count cells from 0 as FArchive::Tell does.

MaxComponents == 2
MaxDestroyed == 1

Guids == {1, 2}

Component(id, dyn, pt, tr, val) ==
    [Live |-> TRUE, UniqueId |-> id, IsDynamic |-> dyn,
     PersistTransform |-> pt, Transform |-> tr, Value |-> val]

\* A weak pointer whose component is gone.
StaleComponent ==
    [Live |-> FALSE, UniqueId |-> 0, IsDynamic |-> FALSE,
     PersistTransform |-> FALSE, Transform |-> 0, Value |-> 0]

\* The components a level offers: placed and dynamic ones, with and without
\* a persisted transform, two of them sharing an id.
LevelComponents ==
    { Component(1, FALSE, TRUE, 5, 7), Component(1, TRUE, FALSE, 5, 8),
      Component(2, FALSE, FALSE, 6, 8), StaleComponent }

ComponentLists ==
    UNION { [1..n -> LevelComponents] : n \in 0..MaxComponents }

Range(seq) == {seq[i] : i \in DOMAIN seq}

\* FHeader::Serialize, saving: the fixed part of the header.
SerializeHeader(h) == <<h.Version, h.UEVersion, h.DynamicOffset, h.IndexOffset>>

RECURSIVE InfoCells(_)
InfoCells(info) ==
    IF info = <<>> THEN <<>>
    ELSE <<Head(info).UniqueId, Head(info).Offset, Head(info).Length>>
            \o InfoCells(Tail(info))

\* FHeader::SerializeVariable, saving: the index, the destroyed ids, the
\* custom versions and the name cache (both empty here).
SerializeVariable(h) ==
    <<Len(h.Info)>> \o InfoCells(h.Info)
       \o <<Len(h.Destroyed)>> \o h.Destroyed \o <<0, 0>>

\* WriteData(Component, Manager, Ar): one component's save data.
WriteComponentData(c) ==
    IF c.PersistTransform THEN <<1, c.Transform, c.Value>> ELSE <<0, c.Value>>

\* One field read from a component's archive; past the end of the view the
\* archive is in error and the field keeps its zero.
Cell(view, i) == IF i \in DOMAIN view THEN view[i] ELSE 0

\* ReadData: what a component gets back from its section of the blob.
ReadData(view) ==
    IF Cell(view, 1) = 1
    THEN [SaveTransform |-> TRUE, Transform |-> Cell(view, 2), Value |-> Cell(view, 3)]
    ELSE [SaveTransform |-> FALSE, Transform |-> 0, Value |-> Cell(view, 2)]

\* The index entry of a component written from offset tell to offset end.
ThisInfoFromData(c, tell, end) ==
    [UniqueId |-> c.UniqueId, Offset |-> tell - 4, Length |-> end - tell]
ThisInfo(c, tell, end) ==
    [UniqueId |-> c.UniqueId, Offset |-> tell, Length |-> end - tell]

\* The first loop of WriteData: the per-actor save data and its index.
RECURSIVE WriteActors(_, _, _)
WriteActors(comps, ar, info) ==
    IF comps = <<>> THEN [ar |-> ar, info |-> info]
    ELSE LET c == Head(comps)
             out == ar \o WriteComponentData(c)
         IN  IF ~c.Live THEN WriteActors(Tail(comps), ar, info)
             ELSE WriteActors(Tail(comps), out,
                              Append(info, ThisInfo(c, Len(ar), Len(out))))

\* The second loop of WriteData listing every live component.
RECURSIVE DynamicCellsOfAll(_)
DynamicCellsOfAll(comps) ==
    IF comps = <<>> THEN <<>>
    ELSE LET c == Head(comps)
         IN  (IF c.Live THEN <<c.UniqueId, c.Transform, 0>> ELSE <<>>)
                \o DynamicCellsOfAll(Tail(comps))

\* The second loop of WriteData: the spawn info of the dynamic actors.
RECURSIVE DynamicCells(_)
DynamicCells(comps) ==
    IF comps = <<>> THEN <<>>
    ELSE LET c == Head(comps)
         IN  (IF c.Live /\ c.IsDynamic THEN <<c.UniqueId, c.Transform, 0>> ELSE <<>>)
                \o DynamicCells(Tail(comps))

NumDynamicActors(comps) ==
    Cardinality({i \in DOMAIN comps : comps[i].Live /\ comps[i].IsDynamic})

\* WriteData(Components, Manager): the header and the blob it leaves.
WriteDataResult(comps) ==
    LET h0 == HeaderReset
        w  == WriteActors(comps, SerializeHeader(h0), h0.Info)
        h1 == [h0 EXCEPT !.Info = w.info, !.DynamicOffset = Len(w.ar)]
        a1 == w.ar \o <<NumDynamicActors(comps)>> \o DynamicCells(comps)
        h2 == [h1 EXCEPT !.IndexOffset = Len(a1)]
        a2 == a1 \o SerializeVariable(h2)
    IN  [Header |-> h2,
         Blob |-> SerializeHeader(h2) \o SubSeq(a2, 5, Len(a2))]

\* FHeader::SerializeVariable, loading: n index entries from offset pos.
RECURSIVE ReadInfos(_, _, _)
ReadInfos(blob, pos, n) ==
    IF n = 0 THEN <<>>
    ELSE <<[UniqueId |-> blob[pos + 1], Offset |-> blob[pos + 2],
            Length |-> blob[pos + 3]]>> \o ReadInfos(blob, pos + 3, n - 1)

\* FHeader::Serialize, loading: the fixed part, then the variable part
\* found at IndexOffset.
ReadHeader(blob) ==
    LET p  == blob[4]
        n  == blob[p + 1]
        q  == p + 1 + 3 * n
        nd == blob[q + 1]
    IN  [Version |-> blob[1], UEVersion |-> blob[2],
         DynamicOffset |-> blob[3], IndexOffset |-> p,
         Info |-> ReadInfos(blob, p + 1, n),
         Destroyed |-> [i \in 1..nd |-> blob[q + 1 + i]]]

WriteData(comps) ==
    /\ Header' = WriteDataResult(comps).Header
    /\ BlobData' = WriteDataResult(comps).Blob
    /\ WriteFrom' = comps
    /\ DestroyedAtWrite' = Range(Header.Destroyed)
    /\ Stage' = "written"
    /\ Loaded' = NotLoaded
    /\ UNCHANGED <<LoadState, jobVars, registryVars, levelVars, backendVars, sideVars>>

Pack ==
    /\ Header' = HeaderReset
    /\ LoadState' = "Uninitialized"
    /\ Stage' = IF Stage = "new" THEN "new" ELSE "packed"
    /\ Loaded' = NotLoaded
    /\ UNCHANGED <<BlobData, WriteFrom, DestroyedAtWrite, jobVars, registryVars,
                   levelVars, backendVars, sideVars>>

Unpack ==
    /\ Header' = IF Len(BlobData) > 0 THEN ReadHeader(BlobData) ELSE HeaderReset
    /\ Stage' = IF Stage = "packed" THEN "unpacked" ELSE Stage
    /\ Loaded' = NotLoaded
    /\ UNCHANGED <<BlobData, LoadState, WriteFrom, DestroyedAtWrite, jobVars, registryVars,
                   levelVars, backendVars, sideVars>>

SetDestroyed(id) ==
    /\ Len(Header.Destroyed) < MaxDestroyed
    /\ Header' = [Header EXCEPT !.Destroyed = Append(@, id)]
    /\ Loaded' = NotLoaded
    /\ UNCHANGED <<BlobData, LoadState, WriteFrom, DestroyedAtWrite, Stage, jobVars,
                   registryVars, levelVars, backendVars, sideVars>>

\* The index entries of a persistent id, in index order.
InfoFor(id) == {i \in DOMAIN Header.Info : Header.Info[i].UniqueId = id}

LoadData(id) ==
    /\ Loaded' =
          IF InfoFor(id) # {}
          THEN LET ActorInfo == Header.Info[CHOOSE i \in InfoFor(id) :
                                               \A j \in InfoFor(id) : i <= j]
                   view == SubSeq(BlobData, ActorInfo.Offset + 1,
                                  ActorInfo.Offset + ActorInfo.Length)
               IN  [path |-> "read", id |-> id, view |-> view,
                    values |-> <<ReadData(view)>>]
          ELSE IF id \in Range(Header.Destroyed)
          THEN [path |-> "destroy", id |-> id, view |-> <<>>, values |-> <<>>]
          ELSE [path |-> "nothing", id |-> id, view |-> <<>>, values |-> <<>>]
    /\ UNCHANGED <<Header, BlobData, LoadState, WriteFrom, DestroyedAtWrite,
                   Stage, jobVars, registryVars,
                   levelVars, backendVars, sideVars>>

ContainerNext ==
    \/ \E comps \in ComponentLists : WriteData(comps)
    \/ Pack
    \/ Unpack
    \/ \E id \in Guids : SetDestroyed(id)
    \/ \E id \in Guids : LoadData(id)

\* The manager stays as constructed, over one of the disk images.
ContainerSpecInit == Init /\ Files[SlotName(0)] = NoFile

ContainerSpec == ContainerSpecInit /\ [][ContainerNext]_vars

\* C12: a persistent id recorded by SetDestroyed before the container was
\* written stays destroyed: once the container has been written, packed and
\* unpacked, LoadData for a component with that id and no index entry takes
\* the destroy path.
C12_DestroyedSurvivesWrite ==
    [][\A id \in Guids :
          (/\ LoadData(id)
           /\ Stage = "unpacked"
           /\ id \in DestroyedAtWrite
           /\ \A i \in DOMAIN Header.Info : Header.Info[i].UniqueId # id)
          => Loaded'.path = "destroy"]_vars

\* ============================================================ registry
\* The calls that change what CommitSave finds: components registering and
\* unregistering, a placed actor destroyed for good, a level unloading.

\* Register: the component joins the array of its container name.
Register(key) ==
    /\ GameThreadRuns
    /\ LET i == FindActors(RegisteredActors, key)
       IN  IF i = 0
           THEN RegisteredActors' = Append(RegisteredActors, [Key |-> key, Num |-> 1])
           ELSE /\ RegisteredActors[i].Num < MaxComponents
                /\ RegisteredActors' = [RegisteredActors EXCEPT ![i].Num = @ + 1]
    /\ UNCHANGED <<jobVars, containerVars, levelVars, backendVars, sideVars, Containers, DeletedLog>>

\* Unregister of a registered component that has no save key.
Unregister(key) ==
    /\ GameThreadRuns
    /\ LET i == FindActors(RegisteredActors, key)
       IN  /\ i # 0
           /\ RegisteredActors[i].Num > 0
           /\ RegisteredActors' = [RegisteredActors EXCEPT ![i].Num = @ - 1]
    /\ UNCHANGED <<jobVars, containerVars, levelVars, backendVars, sideVars, Containers, DeletedLog>>

\* SetComponentDestroyed: GetContainer(key, true), then SetDestroyed.
SetComponentDestroyed(key) ==
    /\ GameThreadRuns
    /\ CurrentData # NullDoc
    /\ LET i == GetContainer(Containers, key)
           all == IF i = 0 THEN Append(Containers, Container(key)) ELSE Containers
           j == IF i = 0 THEN Len(all) ELSE i
       IN  /\ all[j].NumDestroyed < MaxDestroyed
           /\ Containers' = [all EXCEPT ![j].NumDestroyed = @ + 1]
    /\ UNCHANGED <<jobVars, containerVars, levelVars, backendVars, sideVars, RegisteredActors,
                   DeletedLog>>

\* PackContainer: the container, if the document has it, is packed (its
\* header reset), and the name leaves RegisteredActors.
PackContainer(key) ==
    /\ GameThreadRuns
    /\ FindActors(RegisteredActors, key) # 0
    /\ LET i == GetContainer(Containers, key)
       IN  Containers' = IF i = 0 THEN Containers
                         ELSE [Containers EXCEPT ![i].NumDestroyed = 0]
    /\ RegisteredActors' = RemoveActors(RegisteredActors, key)
    /\ UNCHANGED <<jobVars, containerVars, levelVars, backendVars, sideVars, DeletedLog>>

\* The manager once LoadSave has completed for the empty slot 0: a new
\* document is current.  The job counter starts over.
CommitInit ==
    /\ CurrentSlot = 0
    /\ CurrentData = NewDoc(0, 0)
    /\ UserProfile = NullDoc
    /\ UserIndex = 0
    /\ NumSavesPending = 0
    /\ NumBackgroundJobs = 0
    /\ bDisableCommit = FALSE
    /\ bNeverCommit = FALSE
    /\ CommitLockObjects = <<>>
    /\ EngineExit = FALSE
    /\ ThreadJobs = <<>>
    /\ QueuedJobs = {}
    /\ HasRunningThreadJob = FALSE
    /\ ThreadShouldStop = FALSE
    /\ ThreadHasWork = FALSE
    /\ wpc = "loop"
    /\ wJob = NoJob
    /\ wExists = "none"
    /\ wRestored = FALSE
    /\ wRet = TRUE
    /\ GameTasks = <<>>
    /\ gpc = "run"
    /\ ManagerAlive = TRUE
    /\ Files \in {f \in DiskImages : f[SlotName(0)] = NoFile}
    /\ Backups = BackupImage(Files)
    /\ LastBackupTime = {}
    /\ NextId = 1
    /\ Delivered = <<>>
    /\ LastStoreCall = NoStoreCall
    /\ Holders = {}
    /\ AuxInit

CommitNext ==
    \/ \E key \in ContainerKeys : Register(key)
    \/ \E key \in ContainerKeys : Unregister(key)
    \/ \E key \in ContainerKeys : SetComponentDestroyed(key)
    \/ \E key \in ContainerKeys : PackContainer(key)
    \/ CommitSave

CommitSpec == CommitInit /\ [][CommitNext]_vars

\* C13: a CommitSave that runs with a current document leaves no container
\* for a tracked name that has no registered component and no destroyed
\* entry, and leaves every tracked container that has registered components
\* or destroyed entries in the document, written by this commit.
C13_CommitPrunesUnusedContainers ==
    [][(/\ CommitSave
        /\ ~(bNeverCommit \/ bDisableCommit \/ EngineExit)
        /\ CurrentData # NullDoc)
       => \A k \in DOMAIN RegisteredActors :
             LET name == RegisteredActors[k].Key
                 unused == /\ RegisteredActors[k].Num = 0
                           /\ \A i \in DOMAIN Containers :
                                 Containers[i].Key = name
                                    => Containers[i].NumDestroyed = 0
             IN  IF unused
                 THEN \A j \in DOMAIN Containers' : Containers'[j].Key # name
                 ELSE \E j \in DOMAIN Containers' :
                         /\ Containers'[j].Key = name
                         /\ Containers'[j].Commit = NextId]_vars

\* C13 witness: commits have deleted an unused container and written one
\* that was in use.
C13_Witness ==
    /\ DeletedLog # {}
    /\ \E i \in DOMAIN Containers : Containers[i].Commit > 0

\* The live components of the last WriteData, and whether their ids differ.
LiveWritten == {i \in DOMAIN WriteFrom : WriteFrom[i].Live}
DistinctIds ==
    \A i, j \in LiveWritten : WriteFrom[i].UniqueId = WriteFrom[j].UniqueId => i = j

\* What a component had to save.
ValuesOf(c) ==
    [SaveTransform |-> c.PersistTransform,
     Transform |-> IF c.PersistTransform THEN c.Transform ELSE 0,
     Value |-> c.Value]

\* C14: for a container written from live components with distinct ids, then
\* packed and unpacked, LoadData for each of those ids reads exactly the
\* cells written for that component, and the component gets its persisted
\* values back.
C14_LoadDataReadsWhatWasWritten ==
    [][\A id \in Guids : \A k \in LiveWritten :
          (/\ LoadData(id)
           /\ Stage = "unpacked"
           /\ DistinctIds
           /\ WriteFrom[k].UniqueId = id)
          => /\ Loaded'.path = "read"
             /\ Loaded'.view = WriteComponentData(WriteFrom[k])
             /\ Loaded'.values = <<ValuesOf(WriteFrom[k])>>]_vars

\* C14 witness: the second of two components with different ids has been
\* loaded back from the unpacked container.
C14_Witness ==
    /\ Stage = "unpacked"
    /\ Loaded.path = "read"
    /\ DistinctIds
    /\ Len(WriteFrom) = 2
    /\ WriteFrom[1].Live
    /\ WriteFrom[2].Live
    /\ Loaded.id = WriteFrom[2].UniqueId

\* ============================================================ level load
\* The level callbacks of the manager for one streaming level and the
\* container keyed by it (the variables Header, BlobData and LoadState).
MaxLoads == 2

LevelKey == "LevelA"

HasLevelContainer == GetContainer(Containers, LevelKey) # 0

\* FHeader::IsUnpacked.
IsUnpacked(h) == h.Info # <<>> \/ h.Destroyed # <<>>

\* The document's container list with this container in it.
LevelContainers(h) ==
    <<[Container(LevelKey) EXCEPT !.NumDestroyed = Len(h.Destroyed)]>>

\* IsPreloadingDynamicActors(bCheckDelegates).
IsPreloadingDynamicActors(bCheckDelegates) ==
    IF bCheckDelegates /\ LoadState = "Preloading" /\ DynamicActorLoad = "completed"
    THEN FALSE
    ELSE LoadState = "Preloading"

\* The count SpawnDynamicActorsInternal reads at the header's DynamicOffset.
\* A blob that ends before it leaves the count as it was, uninitialized: any
\* value.
NumDynamicRead(blob, h) ==
    IF h.DynamicOffset + 1 \in DOMAIN blob THEN {blob[h.DynamicOffset + 1]}
    ELSE 0..1

\* OnLevelPostLoad for a level of this manager's world: the level gets its
\* key; a container that is not unpacked is unpacked, and the classes of its
\* dynamic actors are requested if it names any (PreloadDynamicActors).
OnLevelPostLoad ==
    /\ GameThreadRuns
    /\ LevelPhase = "unloaded"
    /\ Loads < MaxLoads
    /\ LevelPhase' = "loaded"
    /\ LevelTracked' = TRUE
    /\ Loads' = Loads + 1
    /\ Broadcasts' = 0
    /\ IF HasLevelContainer /\ ~IsUnpacked(Header)
       THEN LET h == IF Len(BlobData) > 0 THEN ReadHeader(BlobData) ELSE HeaderReset
                preload == LoadState = "Uninitialized"
            IN  \E NumDynamic \in NumDynamicRead(BlobData, h) :
                /\ Header' = h
                /\ LoadState' = IF ~preload THEN LoadState
                                ELSE IF NumDynamic > 0 THEN "Preloading"
                                ELSE "Complete"
                /\ DynamicActorLoad' = IF preload /\ NumDynamic > 0 THEN "pending"
                                       ELSE DynamicActorLoad
                /\ Stage' = IF Stage = "packed" THEN "unpacked" ELSE Stage
                /\ Containers' = LevelContainers(h)
       ELSE UNCHANGED <<Header, LoadState, DynamicActorLoad, Stage, Containers>>
    /\ Loaded' = NotLoaded
    /\ UNCHANGED <<jobVars, backendVars, sideVars, BlobData, WriteFrom, DestroyedAtWrite,
                   RegisteredActors, DeletedLog>>

\* The streamable manager finishes the class load; the delegate is not yet
\* called.
LoadCompletes ==
    /\ DynamicActorLoad = "pending"
    /\ DynamicActorLoad' = "completed"
    /\ UNCHANGED <<jobVars, backendVars, sideVars, containerVars, registryVars, LevelPhase,
                   LevelTracked, Loads, Broadcasts>>

\* OnDynamicActorsLoaded, the delegate of the class load.
OnDynamicActorsLoaded ==
    /\ GameThreadRuns
    /\ DynamicActorLoad = "completed"
    /\ IF LoadState = "Preloading"
       THEN /\ LoadState' = "SpawningDynamicActors"
            /\ DynamicActorLoad' = "called"
            /\ UNCHANGED Broadcasts
       ELSE IF LoadState = "WaitingForPreload"
       THEN /\ LoadState' = "Complete"
            /\ DynamicActorLoad' = "none"
            /\ Broadcasts' = Broadcasts + 1
       ELSE /\ DynamicActorLoad' = "called"
            /\ UNCHANGED <<LoadState, Broadcasts>>
    /\ UNCHANGED <<jobVars, backendVars, sideVars, Header, BlobData, WriteFrom,
                   DestroyedAtWrite, Stage, Loaded, registryVars, LevelPhase,
                   LevelTracked, Loads>>

\* SpawnDynamicActors: the load state it leaves and what it returns.
SpawnDynamicActors ==
    IF LoadState = "SpawningDynamicActors"
    THEN [LoadState |-> "Complete", DynamicActorLoad |-> "none", ret |-> TRUE]
    ELSE IF LoadState = "Preloading"
    THEN [LoadState |-> "WaitingForPreload", DynamicActorLoad |-> DynamicActorLoad,
          ret |-> FALSE]
    ELSE [LoadState |-> LoadState, DynamicActorLoad |-> DynamicActorLoad,
          ret |-> FALSE]

\* OnLevelActorsInitialized on a session that is not a client; the engine
\* calls it once OnCanLevelActorsInitialize lets the level go on.
OnLevelActorsInitialized ==
    /\ GameThreadRuns
    /\ LevelPhase = "loaded"
    /\ \E bCheckDelegates \in BOOLEAN :
          ~(LevelTracked /\ HasLevelContainer
              /\ IsPreloadingDynamicActors(bCheckDelegates))
    /\ LevelPhase' = "initialized"
    /\ LET found == LevelTracked /\ HasLevelContainer
           SpawnedActors == IF found THEN SpawnDynamicActors.ret ELSE TRUE
       IN  /\ LoadState' = IF found THEN SpawnDynamicActors.LoadState ELSE LoadState
           /\ DynamicActorLoad' = IF found THEN SpawnDynamicActors.DynamicActorLoad
                                  ELSE DynamicActorLoad
           /\ Broadcasts' = IF SpawnedActors THEN Broadcasts + 1 ELSE Broadcasts
    /\ UNCHANGED <<jobVars, backendVars, sideVars, Header, BlobData, WriteFrom,
                   DestroyedAtWrite, Stage, Loaded, registryVars, LevelTracked, Loads>>

\* A component of the loaded level registers or unregisters.
LevelRegister ==
    /\ LevelPhase = "initialized"
    /\ LevelTracked
    /\ Register(LevelKey)

LevelUnregister ==
    /\ LevelPhase = "initialized"
    /\ LevelTracked
    /\ Unregister(LevelKey)

\* EndPlay of a registered placed component whose actor is destroyed for
\* good: SetComponentDestroyed, which creates the container if the document
\* has none, then Unregister.
EndPlayDestroyed(id) ==
    /\ GameThreadRuns
    /\ LevelPhase = "initialized"
    /\ LevelTracked
    /\ CurrentData # NullDoc
    /\ LET k == FindActors(RegisteredActors, LevelKey)
       IN  /\ k # 0
           /\ RegisteredActors[k].Num > 0
           /\ RegisteredActors' = [RegisteredActors EXCEPT ![k].Num = @ - 1]
    /\ LET h == IF HasLevelContainer THEN Header ELSE [HeaderReset EXCEPT !.Version = 0]
           d == [h EXCEPT !.Destroyed = Append(@, id)]
       IN  /\ Len(h.Destroyed) < MaxDestroyed
           /\ Header' = d
           /\ Containers' = LevelContainers(d)
           /\ IF HasLevelContainer
              THEN UNCHANGED <<BlobData, LoadState, WriteFrom, DestroyedAtWrite, Stage>>
              ELSE /\ BlobData' = <<>>
                   /\ LoadState' = "Uninitialized"
                   /\ WriteFrom' = <<>>
                   /\ DestroyedAtWrite' = {}
                   /\ Stage' = "new"
    /\ Loaded' = NotLoaded
    /\ UNCHANGED <<jobVars, backendVars, sideVars, DeletedLog, levelVars>>

\* OnLevelPreRemoveFromWorld: the level's registered components are written
\* and the container packed, or the container is deleted as unused.
OnLevelPreRemoveFromWorld ==
    /\ GameThreadRuns
    /\ LevelPhase = "initialized"
    /\ LevelPhase' = "removing"
    /\ LET k == FindActors(RegisteredActors, LevelKey)
           unused == /\ RegisteredActors[k].Num = 0
                     /\ ~HasLevelContainer \/ Header.Destroyed = <<>>
       IN  IF CurrentData = NullDoc \/ ~LevelTracked \/ k = 0
           THEN UNCHANGED <<containerVars, registryVars, LevelTracked>>
           ELSE IF unused
           THEN IF HasLevelContainer
                THEN /\ Containers' = <<>>
                     /\ RegisteredActors' = RemoveActors(RegisteredActors, LevelKey)
                     /\ LevelTracked' = FALSE
                     /\ UNCHANGED <<containerVars, DeletedLog>>
                ELSE UNCHANGED <<containerVars, registryVars, LevelTracked>>
           ELSE \E comps \in ComponentLists :
                   /\ Len(comps) = RegisteredActors[k].Num
                   /\ Header' = HeaderReset
                   /\ BlobData' = WriteDataResult(comps).Blob
                   /\ LoadState' = "Uninitialized"
                   /\ WriteFrom' = comps
                   /\ DestroyedAtWrite' = IF HasLevelContainer
                                          THEN Range(Header.Destroyed) ELSE {}
                   /\ Stage' = "packed"
                   /\ Loaded' = NotLoaded
                   /\ Containers' = LevelContainers(HeaderReset)
                   /\ UNCHANGED <<RegisteredActors, DeletedLog, LevelTracked>>
    /\ UNCHANGED <<jobVars, backendVars, sideVars, DynamicActorLoad, Loads, Broadcasts>>

\* OnLevelRemovedFromWorld for the level: PackContainer, and the level
\* leaves LoadedLevels.
OnLevelRemovedFromWorld ==
    /\ GameThreadRuns
    /\ LevelPhase = "removing"
    /\ LevelPhase' = "unloaded"
    /\ LevelTracked' = FALSE
    /\ IF LevelTracked
       THEN /\ RegisteredActors' = RemoveActors(RegisteredActors, LevelKey)
            /\ IF HasLevelContainer
               THEN /\ Header' = HeaderReset
                    /\ LoadState' = "Uninitialized"
                    /\ Stage' = IF Stage = "new" THEN "new" ELSE "packed"
                    /\ Containers' = LevelContainers(HeaderReset)
               ELSE UNCHANGED <<Header, LoadState, Stage, Containers>>
       ELSE UNCHANGED <<Header, LoadState, Stage, Containers, RegisteredActors>>
    /\ Loaded' = NotLoaded
    /\ UNCHANGED <<jobVars, backendVars, sideVars, BlobData, WriteFrom, DestroyedAtWrite,
                   DeletedLog, DynamicActorLoad, Loads, Broadcasts>>

LevelNext ==
    \/ OnLevelPostLoad
    \/ LoadCompletes
    \/ OnDynamicActorsLoaded
    \/ OnLevelActorsInitialized
    \/ LevelRegister
    \/ LevelUnregister
    \/ \E id \in Guids : EndPlayDestroyed(id)
    \/ OnLevelPreRemoveFromWorld
    \/ OnLevelRemovedFromWorld

\* A class load that was requested completes, and its delegate is called.
LevelSpec ==
    /\ CommitInit
    /\ [][LevelNext]_vars
    /\ WF_vars(LoadCompletes)
    /\ WF_vars(OnDynamicActorsLoaded)

\* C15: for every load of the level whose actors-initialized event has been
\* handled, OnDynamicSpawned is broadcast exactly once: never twice, and
\* once eventually while the level stays loaded, whether the level has no
\* container, a container without dynamic actors, or one whose classes were
\* loaded asynchronously.
C15_SpawnedBroadcastOnce ==
    /\ [](Broadcasts <= 1)
    /\ [](LevelPhase = "initialized"
            => <>(Broadcasts = 1 \/ LevelPhase # "initialized"))

\* ============================================================ backend steps
\* FWindowsSaveGameSystem::SaveGame as the sequence of its file operations,
\* for one save name.  The n-th call saves the content n.  The operations
\* of the rotation succeed; writing the temp file, deleting the live file
\* and moving the temp file may fail.
MaxSaves == 3
MaxTime == 2
MaxRuns == 2
BackupIntervalSeconds == 1

otherVars == <<jobVars, containerVars, registryVars, levelVars, sideVars>>

\* SetBackupSettings, the backup count; the game calls it when it starts,
\* before it saves.
SetBackupSettings(n) ==
    /\ spc = "idle"
    /\ Calls = <<>>
    /\ BackupCount # n
    /\ BackupCount' = n
    /\ UNCHANGED <<Live, Temp, Bak, LastTime, Now, spc, sData, ri, SaveRet, PrevLive,
                   SaveNo, Runs, TestedLast, Calls,
                   otherVars>>

\* FPlatformTime::Seconds() moves on; once RotateBackups has read it, a
\* call of SaveGame does not look at the time again.
Tick ==
    /\ spc \in {"idle", "rotate"}
    /\ Now < MaxTime
    /\ Now' = Now + 1
    /\ UNCHANGED <<Live, Temp, Bak, BackupCount, LastTime, spc, sData, ri, SaveRet,
                   PrevLive, SaveNo, Runs, TestedLast,
                   Calls, otherVars>>

\* A call of SaveGame as the history keeps it: the backup count, the time
\* (the one RotateBackups reads, if the call gets there), the return value.
Call(ret) == [count |-> BackupCount, at |-> Now, ret |-> ret]

\* What a call of SaveGame adds to the history.
SaveGameCalled ==
    /\ PrevLive' = Live
    /\ SaveNo' = SaveNo + 1
    /\ sData' = SaveNo + 1

\* SaveGame up to FFileHelper::SaveArrayToFile(Data, TempPath): on failure
\* SaveGame returns false, with or without a cut-short temp file.
SaveGameBegin ==
    /\ spc = "idle"
    /\ SaveNo < MaxSaves
    /\ SaveGameCalled
    /\ \E ok \in BOOLEAN :
          IF ok
          THEN /\ Temp' = SaveNo + 1
               /\ spc' = "rotate"
               /\ SaveRet' = "none"
               /\ Calls' = Append(Calls, Call("none"))
          ELSE /\ Temp' \in {Temp, -1}
               /\ spc' = "idle"
               /\ SaveRet' = "false"
               /\ Calls' = Append(Calls, Call("false"))
    /\ UNCHANGED <<Live, Bak, BackupCount, LastTime, Now, ri, Runs, TestedLast,
                   otherVars>>

\* The tests RotateBackups makes before it rotates, without the one for
\* the first save of the name.
SkipsRotationButFirst ==
    BackupCount <= 0 \/ (LastTime # -1 /\ LastTime + BackupIntervalSeconds > Now)

\* The tests RotateBackups makes before it rotates: no backups configured,
\* the first save of the name in this run, the interval not yet passed.
SkipsRotation ==
    BackupCount <= 0 \/ LastTime = -1 \/ LastTime + BackupIntervalSeconds > Now

\* Rotation going from the live file only.
RotateStartAtLive == IF BackupCount > 0 THEN 0 ELSE -1

\* The index the rotation loop starts from.
RotateStart == BackupCount - 1

\* RotateBackups up to its loop.
RotateBackupsBegin ==
    /\ spc = "rotate"
    /\ TestedLast' = LastTime
    /\ Calls' = [Calls EXCEPT ![Len(Calls)].at = Now]
    /\ IF SkipsRotation
       THEN /\ spc' = "delete"
            /\ LastTime' = IF BackupCount > 0 /\ LastTime = -1 THEN Now ELSE LastTime
            /\ UNCHANGED ri
       ELSE /\ spc' = "rotating"
            /\ LastTime' = Now
            /\ ri' = RotateStart
    /\ UNCHANGED <<Live, Temp, Bak, BackupCount, Now, sData, SaveRet, PrevLive, SaveNo,
                   Runs, otherVars>>

\* One turn of the rotation loop, i = ri: bak<i> moves to bak<i+1>, whose
\* old file is deleted first; the live file (i = 0) is copied to bak1.
RotateStep ==
    /\ spc = "rotating"
    /\ LET cur == IF ri = 0 THEN Live ELSE Bak[ri]
       IN  Bak' = IF cur = 0 THEN Bak
                  ELSE IF ri = 0 THEN [Bak EXCEPT ![1] = cur]
                  ELSE [Bak EXCEPT ![ri + 1] = cur, ![ri] = 0]
    /\ ri' = IF ri = 0 THEN 0 ELSE ri - 1
    /\ spc' = IF ri = 0 THEN "delete" ELSE "rotating"
    /\ UNCHANGED <<Live, Temp, BackupCount, LastTime, Now, sData, SaveRet, PrevLive,
                   SaveNo, Runs, TestedLast, Calls,
                   otherVars>>

\* "Delete the existing save if it exists"; the result of DeleteFile is not
\* looked at.
DeleteLive ==
    /\ spc = "delete"
    /\ \E ok \in BOOLEAN : Live' = IF Live # 0 /\ ok THEN 0 ELSE Live
    /\ spc' = "move"
    /\ UNCHANGED <<Temp, Bak, BackupCount, LastTime, Now, sData, ri, SaveRet, PrevLive,
                   SaveNo, Runs, TestedLast, Calls,
                   otherVars>>

\* return PlatformFile.MoveFile(SavePath, TempPath): it cannot succeed while
\* a file is at the live path.
MoveTemp ==
    /\ spc = "move"
    /\ \E ok \in BOOLEAN :
          IF ok /\ Live = 0
          THEN /\ Live' = Temp
               /\ Temp' = 0
               /\ SaveRet' = "true"
               /\ Calls' = [Calls EXCEPT ![Len(Calls)].ret = "true"]
          ELSE /\ SaveRet' = "false"
               /\ Calls' = [Calls EXCEPT ![Len(Calls)].ret = "false"]
               /\ UNCHANGED <<Live, Temp>>
    /\ spc' = "idle"
    /\ UNCHANGED <<Bak, BackupCount, LastTime, Now, sData, ri, PrevLive, SaveNo, Runs,
                   TestedLast, otherVars>>

\* The process dies between two file operations of SaveGame.
Crash ==
    /\ spc \in {"rotate", "rotating", "delete", "move"}
    /\ spc' = "crashed"
    /\ UNCHANGED <<Live, Temp, Bak, BackupCount, LastTime, Now, sData, ri, SaveRet,
                   PrevLive, SaveNo, Runs, TestedLast,
                   Calls, otherVars>>

\* The process dies while SaveArrayToFile is writing the temp file.
CrashWritingTemp ==
    /\ spc = "idle"
    /\ SaveNo < MaxSaves
    /\ SaveGameCalled
    /\ Calls' = Append(Calls, Call("none"))
    /\ Temp' = -1
    /\ spc' = "crashed"
    /\ UNCHANGED <<Live, Bak, BackupCount, LastTime, Now, ri, SaveRet, Runs, TestedLast,
                   otherVars>>

\* The process dies while CopyFile is writing bak1.
CrashCopying ==
    /\ spc = "rotating"
    /\ ri = 0
    /\ Live # 0
    /\ Bak' = [Bak EXCEPT ![1] = -1]
    /\ spc' = "crashed"
    /\ UNCHANGED <<Live, Temp, BackupCount, LastTime, Now, sData, ri, SaveRet, PrevLive,
                   SaveNo, Runs, TestedLast, Calls,
                   otherVars>>

\* The game is started again: a new backend, the files as they were left.
Restart ==
    /\ spc \in {"idle", "crashed"}
    /\ Runs < MaxRuns
    /\ Runs' = Runs + 1
    /\ BackupCount' = 0
    /\ LastTime' = -1
    /\ spc' = "idle"
    /\ sData' = 0
    /\ ri' = 0
    /\ SaveRet' = "none"
    /\ TestedLast' = -1
    /\ Calls' = <<>>
    /\ UNCHANGED <<Live, Temp, Bak, Now, PrevLive, SaveNo, otherVars>>

SaveNext ==
    \/ \E n \in 0..MaxBackups : SetBackupSettings(n)
    \/ Tick
    \/ SaveGameBegin
    \/ RotateBackupsBegin
    \/ RotateStep
    \/ DeleteLive
    \/ MoveTemp
    \/ Crash
    \/ CrashWritingTemp
    \/ CrashCopying
    \/ Restart

SaveSpec == ContainerSpecInit /\ [][SaveNext]_vars

\* C16: whenever SaveGame has returned false, the live file it found when
\* it was called is still at the live path, with the same content.
C16_FailedSaveKeepsLive ==
    (spc = "idle" /\ SaveRet = "false" /\ PrevLive # 0) => Live = PrevLive

\* C17: if a good save was at the live path when SaveGame was called, a
\* crash at any point of SaveGame leaves either that save or the complete
\* new one at the live path.
C17_CrashKeepsALiveSave ==
    (spc = "crashed" /\ PrevLive > 0) => Live \in {PrevLive, sData}

\* The calls of SaveGame of this process run all had three backups
\* configured and returned true, each after the first at least the backup
\* interval later than the one before it.
ThreeSavesRotated ==
    /\ spc = "idle"
    /\ Len(Calls) = 3
    /\ \A i \in 1..3 : Calls[i].count = 3 /\ Calls[i].ret = "true"
    /\ \A i \in 2..3 : Calls[i].at >= Calls[i - 1].at + BackupIntervalSeconds

\* C18 as the code has it: after three saves of one process run, all with
\* three backups configured, all successful and each at least the backup
\* interval after the one before, and no backups on disk before them, the
\* live file holds the third save, bak1 the second and bak2 the first; the
\* first save rotates nothing, so there is no bak3.
C18_ChainNewestFirst ==
    (ThreeSavesRotated /\ Runs = 1)
        => (Live = sData /\ Bak[1] = sData - 1 /\ Bak[2] = sData - 2 /\ Bak[3] = 0)

\* C18 as stated: after those three saves bak1 holds the first save, bak2
\* the second and the live file the third.
C18_ChainOldestFirst ==
    (ThreeSavesRotated /\ Runs = 1)
        => (Live = sData /\ Bak[1] = sData - 2 /\ Bak[2] = sData - 1)

C18_Witness ==
    ThreeSavesRotated /\ Runs = 1 /\ Bak[1] = 2 /\ Bak[2] = 1 /\ Live = 3

\* C19: a step of SaveGame changes a backup file only if backups are
\* configured, the save is not the first of this process run for the name,
\* and the backup interval has passed since the recorded last backup time.
C19_RotationOnlyAfterInterval ==
    [][Bak' # Bak => /\ BackupCount > 0
                     /\ Len(Calls) >= 2
                     /\ TestedLast # -1
                     /\ TestedLast + BackupIntervalSeconds <= Now]_vars

\* The first save of a second process run has returned true with backups
\* configured, and the backups of the first run are where they were.
C19_Witness ==
    /\ Runs = 2
    /\ spc = "idle"
    /\ Len(Calls) = 1
    /\ Calls[1].ret = "true"
    /\ Calls[1].count > 0
    /\ Bak[1] > 0
    /\ Live = sData

\* ============================================================ restore
\* A file VerifySaveIntegrity accepts, and one whose header does not read.
IsValidFile(file) == file # NoFile /\ VerifySaveIntegrity(file) = "Success"
IsCorruptFile(file) == file # NoFile /\ VerifySaveIntegrity(file) = "Corrupt"

HasValidBackup(name) == \E i \in 1..NumBackups : IsValidFile(Backups[name][i])

\* The valid backup with the lowest number, the newest.
NewestValidBackup(name) ==
    Backups[name][CHOOSE i \in 1..NumBackups :
                     /\ IsValidFile(Backups[name][i])
                     /\ \A j \in 1..(i - 1) : ~IsValidFile(Backups[name][j])]

\* The existence check of a HasSlot job is at a turn of its loop with a
\* corrupt live save and a valid backup, or has restored a backup already.
RestoreCase(name) ==
    /\ wpc = "exists"
    /\ wJob.Type = "HasSlot"
    /\ SlotName(wJob.Slot) = name
    /\ \/ IsCorruptFile(Files[name]) /\ HasValidBackup(name)
       \/ wRestored /\ IsValidFile(Files[name])

\* The save the check is to end with at the live path.
RestoreTarget(name) ==
    IF IsValidFile(Files[name]) THEN Files[name] ELSE NewestValidBackup(name)

\* C20: with a corrupt live save and a valid backup, every turn of the
\* existence check of a HasSlot job either goes on to the next backup or
\* ends the check with Restored (Unknown if the storage fails) and the
\* newest valid backup at the live path; and a load that finds a valid
\* save at the live path succeeds with the content of that save.
C20_CorruptLiveIsRestored ==
    [][/\ \A name \in Names :
             (RestoreCase(name) /\ W_Exists) =>
                \/ RestoreCase(name)' /\ RestoreTarget(name)' = RestoreTarget(name)
                \/ /\ GameTasks' = Append(GameTasks, Task("has", wJob, "Restored"))
                   /\ Files'[name] = RestoreTarget(name)
                \/ GameTasks' = Append(GameTasks, Task("has", wJob, "Unknown"))
       /\ (wJob.Type = "LoadSlot" /\ IsValidFile(Files[JobName(wJob)]) /\ W_Load) =>
             \E res \in {"Success", "Restored"} :
                GameTasks' = Append(GameTasks,
                    Task("load", [wJob EXCEPT !.WorldData = Files[JobName(wJob)],
                                              !.restored = (res = "Restored")], res))]_vars

\* ============================================================ restore steps
\* FWindowsSaveGameSystem::RestoreBackup on the files of one save name.

\* The backups left where they are.
MoveBackupNowhere(bak, dest, i) == bak

\* PlatformFile.MoveFile(DestPath, SrcPath) from bak<i> to bak<dest>.
MoveBackup(bak, dest, i) == [bak EXCEPT ![dest] = bak[i], ![i] = 0]

\* The loop of RestoreBackup from i on, over the backups 1..n: every
\* existing backup moves to the next destination (DestRevision = dest; 0 is
\* the live path), whose file, if any, is deleted first; DestRevision goes
\* up whether the move succeeded or not.  res is bResult.
RECURSIVE RestoreLoop(_, _, _, _, _, _, _)
RestoreLoop(i, n, live, bak, dest, res, fails) ==
    IF i > n THEN [live |-> live, bak |-> bak, result |-> res]
    ELSE IF bak[i] = 0 THEN RestoreLoop(i + 1, n, live, bak, dest, res, fails)
    ELSE LET ok == i \notin fails
             live1 == IF dest # 0 THEN live ELSE IF ok THEN bak[i] ELSE 0
             bak1 == IF dest = 0
                     THEN (IF ok THEN [bak EXCEPT ![i] = 0] ELSE bak)
                     ELSE IF ok THEN MoveBackup(bak, dest, i)
                     ELSE [bak EXCEPT ![dest] = 0]
         IN RestoreLoop(i + 1, n, live1, bak1, dest + 1,
                        IF dest = 0 THEN ok ELSE res, fails)

\* RestoreBackup(Name): the live file, if there is one, is renamed to
\* <path>_<time>.corrupt, then the loop runs.
RestoreBackupCalled(fails) ==
    /\ spc = "idle"
    /\ LET renamed == Live # 0 /\ 0 \notin fails
           r == RestoreLoop(1, BackupCount, IF renamed THEN 0 ELSE Live, Bak, 0, FALSE,
                            fails)
       IN /\ CorruptFile' = IF renamed THEN Live ELSE CorruptFile
          /\ Live' = r.live
          /\ Bak' = r.bak
          /\ RestoreRet' = IF r.result THEN "true" ELSE "false"
    /\ BeforeRestore' = [live |-> Live, bak |-> Bak, count |-> BackupCount,
                         fails |-> fails]
    /\ UNCHANGED <<Temp, BackupCount, LastTime, Now, spc, sData, ri, SaveRet, PrevLive,
                   SaveNo, Runs, TestedLast, Calls,
                   jobVars, containerVars, registryVars, levelVars, restoreRest>>

\* The files a game may find at its start: a good save, a damaged one or
\* none at the live path, and any of the backups, bak<i> with content i + 1.
RestoreSpecInit ==
    /\ ManagerInit
    /\ Files[SlotName(0)] = NoFile
    /\ ContainerInit /\ RegistryInit /\ LevelInit /\ RestoreInit /\ HeaderInit
    /\ ArchiveInit /\ OffsetInit /\ CycleInit /\ LateInit
    /\ Live \in {0, -1, 1}
    /\ Bak \in [1..MaxBackups -> 0..(MaxBackups + 1)]
    /\ \A i \in 1..MaxBackups : Bak[i] \in {0, i + 1}
    /\ BackupCount \in 0..MaxBackups
    /\ Temp = 0
    /\ LastTime = -1
    /\ Now = 0
    /\ spc = "idle"
    /\ sData = 0
    /\ ri = 0
    /\ SaveRet = "none"
    /\ PrevLive = 0
    /\ SaveNo = 0
    /\ Runs = 1
    /\ TestedLast = -1
    /\ Calls = <<>>

RestoreNext == \E fails \in SUBSET (0..MaxBackups) : RestoreBackupCalled(fails)

RestoreSpec == RestoreSpecInit /\ [][RestoreNext]_vars

\* The backups the last call of RestoreBackup found, by number, and the
\* j-th of them from the lowest number.
FoundBackups ==
    {i \in 1..BeforeRestore.count : BeforeRestore.bak[i] # 0}
NthFound(j) ==
    CHOOSE i \in FoundBackups : Cardinality({k \in FoundBackups : k < i}) = j - 1

C22_FailedRestoreKeepsLive ==
    (RestoreRet = "false" /\ BeforeRestore.live # 0) =>
        (Live = BeforeRestore.live /\ Bak = BeforeRestore.bak)

\* ============================================================ header cells
\* FSaveHeader on a buffer of cells.  Offsets count cells from 0, as
\* FArchive::Tell counts bytes; the cell at offset k is SaveBlob[k + 1].

MaxDocCells == 2
MaxChanges == 2

\* FSaveHeader::Write, the fields in their order.
HeaderFields ==
    <<"Version", "Checksum", "Size", "BuildNumber", "UEVersion", "CustomVersionsOffset",
      "SaveGameClassPath">>
OffsetOf(field) == (CHOOSE k \in DOMAIN HeaderFields : HeaderFields[k] = field) - 1
FieldAt(blob, field) == blob[OffsetOf(field) + 1]

\* GetChecksumDataStartOffset: everything after the checksum value.
ChecksumDataStartOffset == OffsetOf("Checksum") + 1

\* FCrc::MemCrc32 as a checksum that tells any two contents apart.
MemCrc32(data) == data

\* The serialized documents: n cells, the i-th holding i.
Documents == {[i \in 1..n |-> i] : n \in 1..MaxDocCells}

\* The table CustomVersions.Serialize writes.
CustomVersionsTable == <<0>>

\* WriteSave: the header, the document, then Finalize - the custom versions
\* at CustomVersionsOffset, Size, and the checksum over the cells from
\* ChecksumDataStartOffset to Size.
WriteSaveCells(doc) ==
    LET first == <<GUNFIRE_PERSISTENCE_VERSION, MemCrc32(<<>>), 0, CurrentBuildNumber,
                   GPackageFileUEVersion, 0, 1>> \o doc
        sized == [first \o CustomVersionsTable
                     EXCEPT ![OffsetOf("CustomVersionsOffset") + 1] = Len(first),
                            ![OffsetOf("Size") + 1] = Len(first) + Len(CustomVersionsTable)]
    IN [sized EXCEPT ![OffsetOf("Checksum") + 1] =
            MemCrc32(SubSeq(sized, ChecksumDataStartOffset + 1, Len(sized)))]

\* FSaveHeader::Read that compares the checksum before it looks at the
\* version.
FSaveHeaderReadChecksumFirst(blob) ==
    LET Version == FieldAt(blob, "Version")
        Size == FieldAt(blob, "Size")
        at(field) == OffsetOf(field) + 1
    IN IF Size > Len(blob) THEN {[res |-> "Corrupt", tell |-> at("Size")]}
       ELSE IF Size < ChecksumDataStartOffset
       THEN {[res |-> "Corrupt", tell |-> at("Size")], [res |-> "Crash", tell |-> at("Size")]}
       ELSE IF MemCrc32(SubSeq(blob, ChecksumDataStartOffset + 1, Size))
                  # FieldAt(blob, "Checksum")
       THEN {[res |-> "Corrupt", tell |-> at("Size")]}
       ELSE IF Version < 10 THEN {[res |-> "Corrupt", tell |-> at("Size")]}
       ELSE IF Version > GUNFIRE_PERSISTENCE_VERSION
       THEN {[res |-> "TooNew", tell |-> at("Size")]}
       ELSE {[res |-> "Success", tell |-> Len(HeaderFields)]}

\* FSaveHeader::Read: the results it can return, each with the offset the
\* archive is at when it returns.  A Size below ChecksumDataStartOffset
\* passes the test against SaveBlob.Num() and gives MemCrc32 a negative
\* length, which reads outside the buffer.
FSaveHeaderRead(blob) ==
    LET Version == FieldAt(blob, "Version")
        Size == FieldAt(blob, "Size")
        at(field) == OffsetOf(field) + 1
    IN IF Version < 10 THEN {[res |-> "Corrupt", tell |-> at("Version")]}
       ELSE IF Version > GUNFIRE_PERSISTENCE_VERSION
       THEN {[res |-> "TooNew", tell |-> at("Version")]}
       ELSE IF Size > Len(blob) THEN {[res |-> "Corrupt", tell |-> at("Size")]}
       ELSE IF Size < ChecksumDataStartOffset
       THEN {[res |-> "Corrupt", tell |-> at("Size")], [res |-> "Crash", tell |-> at("Size")]}
       ELSE IF MemCrc32(SubSeq(blob, ChecksumDataStartOffset + 1, Size))
                  # FieldAt(blob, "Checksum")
       THEN {[res |-> "Corrupt", tell |-> at("Size")]}
       ELSE IF CurrentBuildNumber # 0 /\ FieldAt(blob, "BuildNumber") > CurrentBuildNumber
       THEN {[res |-> "TooNew", tell |-> at("BuildNumber")]}
       ELSE {[res |-> "Success", tell |-> Len(HeaderFields)]}

\* WriteSave(SaveGame, SaveBlob)
WriteSaveCalled(doc) ==
    /\ SaveBlob' = WriteSaveCells(doc)
    /\ HeaderOut' = NoRead
    /\ Changed' = {}
    /\ UNCHANGED <<mainVars, headerRest>>

\* The values a cell may be changed to; a checksum cell gets a checksum no
\* content has.
CellValues ==
    {-1, 0, 1, GUNFIRE_PERSISTENCE_VERSION - 1, GUNFIRE_PERSISTENCE_VERSION,
     GUNFIRE_PERSISTENCE_VERSION + 1, GUNFIRE_PERSISTENCE_VERSION + 5}
BadChecksum == MemCrc32(<<-1>>)

\* The stored buffer is damaged: the cell at offset k gets another value.
ChangeCell(k, v) ==
    /\ SaveBlob # <<>>
    /\ k \in 0..(Len(SaveBlob) - 1)
    /\ k \notin Changed
    /\ Cardinality(Changed) < MaxChanges
    /\ IF k = OffsetOf("Checksum")
       THEN /\ v = 0
            /\ SaveBlob' = [SaveBlob EXCEPT ![k + 1] = BadChecksum]
       ELSE /\ v # SaveBlob[k + 1]
            /\ SaveBlob' = [SaveBlob EXCEPT ![k + 1] = v]
    /\ Changed' = Changed \cup {k}
    /\ HeaderOut' = NoRead
    /\ UNCHANGED <<mainVars, headerRest>>

\* ReadSave(SaveBlob, Result): nullptr unless the header reads and the class
\* is found; then ReadBaseObject parses the cells after the header.
ReadSaveCalled ==
    /\ SaveBlob # <<>>
    /\ \E out \in FSaveHeaderRead(SaveBlob), classFound \in BOOLEAN :
          HeaderOut' =
             IF out.res # "Success"
             THEN [op |-> "ReadSave", res |-> out.res, tell |-> out.tell, doc |-> <<>>,
                   parsed |-> FALSE]
             ELSE IF ~classFound
             THEN [op |-> "ReadSave", res |-> "Corrupt", tell |-> out.tell, doc |-> <<>>,
                   parsed |-> FALSE]
             ELSE [op |-> "ReadSave", res |-> "Success", tell |-> out.tell,
                   doc |-> SubSeq(SaveBlob, Len(HeaderFields) + 1,
                                  FieldAt(SaveBlob, "CustomVersionsOffset")),
                   parsed |-> TRUE]
    /\ UNCHANGED <<SaveBlob, Changed, mainVars, headerRest>>

\* VerifySaveIntegrity(SaveBlob, Result): the header only.
VerifySaveIntegrityCalled ==
    /\ SaveBlob # <<>>
    /\ \E out \in FSaveHeaderRead(SaveBlob) :
          HeaderOut' = [op |-> "VerifySaveIntegrity", res |-> out.res, tell |-> out.tell,
                        doc |-> <<>>, parsed |-> FALSE]
    /\ UNCHANGED <<SaveBlob, Changed, mainVars, headerRest>>

HeaderNext ==
    \/ \E doc \in Documents : WriteSaveCalled(doc)
    \/ \E k \in 0..(Len(HeaderFields) + MaxDocCells), v \in CellValues : ChangeCell(k, v)
    \/ ReadSaveCalled
    \/ VerifySaveIntegrityCalled

HeaderSpec == ContainerSpecInit /\ [][HeaderNext]_vars

\* C23: a blob whose version is above this build's is rejected with TooNew
\* and one whose version is below 10 with Corrupt, in both cases with the
\* archive just past the version field - whatever the checksum, the size
\* and the build number are - and ReadSave parses nothing and returns no
\* document.
C23_VersionRejectedFirst ==
    (HeaderOut.op # "none" /\ FieldAt(SaveBlob, "Version") \notin 10..GUNFIRE_PERSISTENCE_VERSION)
        => /\ HeaderOut.res = IF FieldAt(SaveBlob, "Version") < 10 THEN "Corrupt" ELSE "TooNew"
           /\ HeaderOut.tell = OffsetOf("Version") + 1
           /\ HeaderOut.doc = <<>>
           /\ ~HeaderOut.parsed

\* ReadSave has rejected as TooNew a blob of the next version whose size
\* field is damaged as well.
C23_Witness ==
    /\ HeaderOut.op = "ReadSave"
    /\ HeaderOut.res = "TooNew"
    /\ Changed = {OffsetOf("Version"), OffsetOf("Size")}
    /\ FieldAt(SaveBlob, "Version") = GUNFIRE_PERSISTENCE_VERSION + 1

\* C24: for a blob WriteSave produced and one changed cell at or after
\* ChecksumDataStartOffset, ReadSave and VerifySaveIntegrity return Corrupt.
C24_ChangedCellIsCorrupt ==
    (/\ HeaderOut.op # "none"
     /\ Cardinality(Changed) = 1
     /\ \A k \in Changed : k >= ChecksumDataStartOffset)
        => HeaderOut.res = "Corrupt"

\* ============================================================ archive
\* FSaveGameArchive::WriteBaseObject and ReadBaseObject.  Indices into
\* Objects count from 0 as in the code; -1 is INDEX_NONE.

MaxObjects == 3

ObjectIds == 1..MaxObjects

\* The reference fields of an object: the root has two, the others one.
NumFields(o) == IF o = 1 THEN 2 ELSE 1

\* TArray::Find
Find(objects, o) ==
    IF \E k \in DOMAIN objects : objects[k] = o
    THEN (CHOOSE k \in DOMAIN objects : objects[k] = o) - 1
    ELSE -1

\* operator<<(UObject*&) when saving, writing for an object already in
\* Objects the index of the last object there.
WriteReferenceToLast(objects, queue, o) ==
    IF o = 0 THEN [objects |-> objects, queue |-> queue, index |-> -1]
    ELSE IF Find(objects, o) # -1
    THEN [objects |-> objects, queue |-> queue, index |-> Len(objects) - 1]
    ELSE [objects |-> Append(objects, o), queue |-> Append(queue, o),
          index |-> Len(objects)]

\* operator<<(UObject*&) when saving: the index of the object in Objects,
\* which gets the object, as does ObjectsToSerialize, if it is new.
WriteReference(objects, queue, o) ==
    IF o = 0 THEN [objects |-> objects, queue |-> queue, index |-> -1]
    ELSE IF Find(objects, o) # -1
    THEN [objects |-> objects, queue |-> queue, index |-> Find(objects, o)]
    ELSE [objects |-> Append(objects, o), queue |-> Append(queue, o),
          index |-> Len(objects)]

\* Object->Serialize(*this): the reference fields from the f-th on.
RECURSIVE SerializeObject(_, _, _, _, _)
SerializeObject(fields, f, objects, queue, data) ==
    IF f > Len(fields) THEN [objects |-> objects, queue |-> queue, data |-> data]
    ELSE LET w == WriteReference(objects, queue, fields[f])
         IN SerializeObject(fields, f + 1, w.objects, w.queue, Append(data, w.index))

\* The loop of WriteBaseObject while ObjectsToSerialize is not empty.
RECURSIVE WriteObjects(_, _, _, _)
WriteObjects(graph, objects, queue, records) ==
    IF queue = <<>> THEN [objects |-> objects, records |-> records]
    ELSE LET o == Head(queue)
             w == SerializeObject(graph[o], 1, objects, Tail(queue), <<>>)
         IN WriteObjects(graph, w.objects, w.queue,
                         Append(records, [index |-> Find(objects, o), data |-> w.data]))

\* The index WriteBaseObject writes after the objects: per object its name
\* and the index of its outer.
WriteIndex(objects, outer) ==
    [k \in DOMAIN objects |->
        [name |-> objects[k],
         outer |-> IF outer[objects[k]] = 0 THEN -1 ELSE Find(objects, outer[objects[k]])]]

\* verifyf(OuterIndex == INDEX_NONE || OuterIndex < i) holds for every entry.
OutersFirst(index) ==
    \A k \in DOMAIN index : index[k].outer = -1 \/ index[k].outer < k - 1

\* WriteBaseObject(BaseObject, ClassCache): the verifyf stops a build that
\* has checks and lets any other go on.
WriteBaseObject ==
    /\ Graph # <<>>
    /\ Archive.status = "none"
    /\ LET w == WriteObjects(Graph, <<1>>, <<1>>, <<>>)
           index == WriteIndex(w.objects, Outer)
       IN \/ Archive' = [status |-> "written", records |-> w.records, index |-> index]
          \/ /\ ~OutersFirst(index)
             /\ Archive' = [status |-> "stopped", records |-> w.records, index |-> <<>>]
    /\ UNCHANGED <<Graph, Outer, ReadBack, mainVars, archiveRest>>

\* ReadBaseObject(BaseObject): Objects gets one instance per index entry
\* (the base object for the first; nullptr for an entry whose class is not
\* found), then every record is read into the instance at its index, each
\* reference as the instance at the index written.  Instances are named by
\* their place in Objects, 0 is nullptr.
ReadBaseObject(missing) ==
    /\ Archive.status = "written"
    /\ ReadBack.status = "none"
    /\ LET objects == [k \in DOMAIN Archive.index |->
                           IF Archive.index[k].name \in missing THEN 0 ELSE k]
           resolve(i) == IF i + 1 \in DOMAIN objects THEN objects[i + 1] ELSE 0
           recordOf(k) == CHOOSE r \in DOMAIN Archive.records :
                              Archive.records[r].index = k - 1
       IN ReadBack' =
             [status |-> "read", objects |-> objects,
              fields |-> [k \in DOMAIN objects |->
                             IF objects[k] = 0 THEN <<>>
                             ELSE [f \in DOMAIN Archive.records[recordOf(k)].data |->
                                      resolve(Archive.records[recordOf(k)].data[f])]]]
    /\ UNCHANGED <<Graph, Outer, Archive, mainVars, archiveRest>>

\* The object graphs: any references, and as outer of an object other
\* than the root another object or none.
ObjectGraphs == [ObjectIds -> UNION {[1..n -> 0..MaxObjects] : n \in 1..2}]
ArchiveSpecInit ==
    /\ ManagerInit
    /\ Files[SlotName(0)] = NoFile
    /\ ContainerInit /\ RegistryInit /\ LevelInit /\ BackendInit /\ RestoreInit
    /\ HeaderInit /\ OffsetInit /\ CycleInit /\ LateInit
    /\ Graph \in ObjectGraphs
    /\ \A o \in ObjectIds : Len(Graph[o]) = NumFields(o)
    /\ Outer \in [ObjectIds -> 0..MaxObjects]
    /\ Outer[1] = 0
    /\ \A o \in ObjectIds : Outer[o] # o
    /\ Archive = NoArchive
    /\ ReadBack = NoReadBack

ArchiveNext ==
    \/ WriteBaseObject
    \/ \E missing \in {{}} \cup {{o} : o \in ObjectIds \ {1}} : ReadBaseObject(missing)

ArchiveSpec == ArchiveSpecInit /\ [][ArchiveNext]_vars

\* The objects reachable from the root over reference fields in at most n
\* steps.
RECURSIVE ReachableIn(_)
ReachableIn(n) ==
    IF n = 0 THEN {1}
    ELSE LET before == ReachableIn(n - 1)
         IN before \cup
            (UNION {{Graph[o][f] : f \in DOMAIN Graph[o]} : o \in before} \ {0})
Reachable == ReachableIn(MaxObjects)

\* The index entry of an object, 0 if it has none.
EntryOf(o) ==
    IF \E k \in DOMAIN Archive.index : Archive.index[k].name = o
    THEN CHOOSE k \in DOMAIN Archive.index : Archive.index[k].name = o
    ELSE 0

\* C25: what WriteBaseObject wrote has exactly one index entry for every
\* object reachable from the root and no other entry, and exactly one data
\* record for every entry; after ReadBaseObject every reference field of a
\* reconstructed object holds the one instance made for the entry of the
\* object the field referred to (nullptr for a null reference), so
\* references to one object, shared or on a cycle, resolve to one instance.
C25_SharedObjectsOnce ==
    /\ Archive.status = "written" =>
          /\ \A o \in Reachable :
                Cardinality({k \in DOMAIN Archive.index : Archive.index[k].name = o}) = 1
          /\ \A k \in DOMAIN Archive.index : Archive.index[k].name \in Reachable
          /\ \A k \in DOMAIN Archive.index :
                Cardinality({r \in DOMAIN Archive.records :
                                Archive.records[r].index = k - 1}) = 1
          /\ Len(Archive.records) = Len(Archive.index)
    /\ ReadBack.status = "read" =>
          /\ DOMAIN ReadBack.objects = DOMAIN Archive.index
          /\ \A k \in DOMAIN ReadBack.objects :
                ReadBack.objects[k] # 0 =>
                   /\ \A j \in DOMAIN ReadBack.objects :
                         j # k => ReadBack.objects[j] # ReadBack.objects[k]
                   /\ DOMAIN ReadBack.fields[k] = DOMAIN Graph[Archive.index[k].name]
                   /\ \A f \in DOMAIN ReadBack.fields[k] :
                         LET o == Graph[Archive.index[k].name][f]
                         IN ReadBack.fields[k][f] =
                               IF o = 0 THEN 0 ELSE ReadBack.objects[EntryOf(o)]

\* C25 witness: a graph whose root refers twice to object 2, which refers
\* back to the root, has been written and read with every class found.
C25_Witness ==
    /\ ReadBack.status = "read"
    /\ Graph[1] = <<2, 2>>
    /\ Graph[2] = <<1>>
    /\ \A k \in DOMAIN ReadBack.objects : ReadBack.objects[k] # 0
    /\ ReadBack.fields[1] = <<ReadBack.objects[2], ReadBack.objects[2]>>
    /\ ReadBack.fields[2] = <<ReadBack.objects[1]>>

\* ============================================================ dynamic section
\* What a written blob holds, read with the offsets of its header.
WrittenHeader == ReadHeader(BlobData)
WrittenCount == BlobData[WrittenHeader.DynamicOffset + 1]
WrittenSpawns ==
    SubSeq(BlobData, WrittenHeader.DynamicOffset + 2, WrittenHeader.IndexOffset)
LiveComponents == SelectSeq(WriteFrom, LAMBDA c : c.Live)
DynamicWritten == SelectSeq(WriteFrom, LAMBDA c : c.Live /\ c.IsDynamic)

\* C26: in a blob WriteData wrote, the dynamic section holds a count and
\* then exactly that many entries, one for each live dynamic component
\* passed in, in order, and none for a placed or a dead one; the index has
\* exactly one entry for each live component passed in, placed or dynamic,
\* in order, and the entry's section of the blob is that component's data.
C26_DynamicSectionListsDynamic ==
    Len(BlobData) > 0 =>
       /\ WrittenCount = Len(DynamicWritten)
       /\ Len(WrittenSpawns) = 3 * WrittenCount
       /\ \A i \in 1..WrittenCount :
             /\ WrittenSpawns[3 * i - 2] = DynamicWritten[i].UniqueId
             /\ WrittenSpawns[3 * i - 1] = DynamicWritten[i].Transform
       /\ Len(WrittenHeader.Info) = Len(LiveComponents)
       /\ \A i \in DOMAIN LiveComponents :
             LET ThatInfo == WrittenHeader.Info[i]
             IN /\ ThatInfo.UniqueId = LiveComponents[i].UniqueId
                /\ SubSeq(BlobData, ThatInfo.Offset + 1, ThatInfo.Offset + ThatInfo.Length)
                      = WriteComponentData(LiveComponents[i])

\* C26 witness: a live placed and a live dynamic component were written:
\* one spawn entry, two index entries.
C26_Witness ==
    /\ Len(BlobData) > 0
    /\ Len(WriteFrom) = MaxComponents
    /\ \E i, j \in DOMAIN WriteFrom :
          /\ WriteFrom[i].Live /\ WriteFrom[i].IsDynamic
          /\ WriteFrom[j].Live /\ ~WriteFrom[j].IsDynamic
    /\ WrittenCount = 1
    /\ Len(WrittenHeader.Info) = 2

\* ============================================================ level offsets
\* SetLevelOffset, RemoveLevelOffset and AddLevelOffset, with locations and
\* offsets as integers.

MaxOffsets == 2

Streams == DOMAIN LoadedLevel
StreamedLevels == {1, 2}
OffsetValues == {-1, 0, 2}
Locations == {0, 3}

\* The entries of the table whose streaming level is alive and has the
\* level loaded.
EntriesOf(Level) ==
    {i \in DOMAIN LevelOffsets :
        LoadedLevel[LevelOffsets[i].Level] # 0
          /\ LoadedLevel[LevelOffsets[i].Level] = Level}

\* The entry the loops of RemoveLevelOffset and AddLevelOffset stop at.
FirstEntryOf(Level) == CHOOSE i \in EntriesOf(Level) : \A j \in EntriesOf(Level) : i <= j
LastEntryOf(Level) == CHOOSE i \in EntriesOf(Level) : \A j \in EntriesOf(Level) : i >= j

\* RemoveLevelOffset(Level, Transform): the location it leaves.
RemoveLevelOffset(Level, Location) ==
    IF EntriesOf(Level) = {} THEN Location
    ELSE Location - LevelOffsets[FirstEntryOf(Level)].Offset

\* AddLevelOffset taking the last entry of the level.
AddLevelOffsetOfLast(Level, Location) ==
    IF EntriesOf(Level) = {} THEN Location
    ELSE Location + LevelOffsets[LastEntryOf(Level)].Offset

\* AddLevelOffset(Level, Transform): the location it leaves.
AddLevelOffset(Level, Location) ==
    IF EntriesOf(Level) = {} THEN Location
    ELSE Location + LevelOffsets[FirstEntryOf(Level)].Offset

\* SetLevelOffset(Level, Offset), called with a streaming level that is alive.
SetLevelOffset(stream, Offset) ==
    /\ Len(LevelOffsets) < MaxOffsets
    /\ LoadedLevel[stream] # 0
    /\ LevelOffsets' = Append(LevelOffsets, [Level |-> stream, Offset |-> Offset])
    /\ UNCHANGED <<LoadedLevel, WrittenAt, ReadAt, mainVars, offsetRest>>

\* A streaming level is collected or drops its level: the weak pointer of
\* its entries, or GetLoadedLevel, gives nullptr from now on.
StreamGone(stream) ==
    /\ LoadedLevel[stream] # 0
    /\ LoadedLevel' = [LoadedLevel EXCEPT ![stream] = 0]
    /\ UNCHANGED <<LevelOffsets, WrittenAt, ReadAt, mainVars, offsetRest>>

\* WriteData(Component, Manager, Ar) for an actor of the level at the
\* location: the transform with the offset removed goes to the archive.
WriteTransform(Level, Location) ==
    /\ WrittenAt.status = "none"
    /\ WrittenAt' = [status |-> "written", level |-> Level, loc |-> Location,
                     stored |-> RemoveLevelOffset(Level, Location),
                     table |-> LevelOffsets, loaded |-> LoadedLevel]
    /\ UNCHANGED <<LevelOffsets, LoadedLevel, ReadAt, mainVars, offsetRest>>

\* ReadData(Component, Manager, Ar) for the actor: the transform read gets
\* the offset added and is set on the actor.
ReadTransform ==
    /\ WrittenAt.status = "written"
    /\ ReadAt.status = "none"
    /\ ReadAt' = [WrittenAt EXCEPT !.status = "read",
                                   !.loc = AddLevelOffset(WrittenAt.level, WrittenAt.stored),
                                   !.table = LevelOffsets, !.loaded = LoadedLevel]
    /\ UNCHANGED <<LevelOffsets, LoadedLevel, WrittenAt, mainVars, offsetRest>>

OffsetNext ==
    \/ \E stream \in Streams, Offset \in OffsetValues : SetLevelOffset(stream, Offset)
    \/ \E stream \in Streams : StreamGone(stream)
    \/ \E Level \in StreamedLevels, Location \in Locations : WriteTransform(Level, Location)
    \/ ReadTransform

OffsetSpec == ContainerSpecInit /\ [][OffsetNext]_vars

\* C27: a location written through RemoveLevelOffset and read back through
\* AddLevelOffset for the same level, with the table and what its entries
\* resolve to the same at the read as at the write, is the original
\* location, however many SetLevelOffset calls came before the write.
C27_OffsetRoundTrip ==
    (/\ ReadAt.status = "read"
     /\ ReadAt.table = WrittenAt.table
     /\ ReadAt.loaded = WrittenAt.loaded)
       => ReadAt.loc = WrittenAt.loc

\* C27 witness: a location was written and read back under a table with
\* two different offsets for its level; what was stored differs from it.
C27_Witness ==
    /\ ReadAt.status = "read"
    /\ ReadAt.table = WrittenAt.table
    /\ ReadAt.loaded = WrittenAt.loaded
    /\ Len(WrittenAt.table) = 2
    /\ WrittenAt.table[1].Level = WrittenAt.table[2].Level
    /\ WrittenAt.table[1].Offset # WrittenAt.table[2].Offset
    /\ WrittenAt.loaded[WrittenAt.table[1].Level] = WrittenAt.level
    /\ WrittenAt.stored # WrittenAt.loc
    /\ ReadAt.loc = WrittenAt.loc

\* ============================================================ teardown
\* Teardown has begun: BeginDestroy is waiting for the worker or is past
\* the join.
TeardownBegun == gpc # "run"

\* C28: from the moment BeginDestroy has begun no step delivers a
\* completion callback or an event, for the jobs still in ThreadJobs, the
\* job the worker is processing, the jobs parked in QueuedJobs and the
\* jobs whose thread hop is waiting alike.
C28_NoCallbackAfterTeardown ==
    [][TeardownBegun => Delivered' = Delivered]_vars

\* C28 witness: teardown is over and every thread hop has run, and of the
\* two jobs queued before it neither got its callback.
C28_Witness ==
    /\ gpc = "destroyed"
    /\ GameTasks = <<>>
    /\ NextId > MaxCalls
    /\ JobCallbacks = <<>>

\* The worker thread keeps running and every storage call returns; the
\* join returns once the worker has left Run.
TeardownFairSpec ==
    /\ Init /\ [][TeardownNext]_vars
    /\ WF_vars(Worker)
    /\ WF_vars(BeginDestroyJoined)

\* C29: once BeginDestroy has set the stop flag and triggered the event,
\* the worker leaves Run, whether it was waiting for work, processing a
\* job, or idle because a job is in flight, and BeginDestroy gets past
\* the join.
C29_TeardownTerminates ==
    TeardownBegun ~> (wpc = "exited" /\ gpc = "destroyed")

\* C29 witness: BeginDestroy is past the join while a job is still in
\* flight, its thread hop not yet run, and the worker has left Run.
C29_Witness ==
    /\ gpc = "destroyed"
    /\ wpc = "exited"
    /\ HasRunningThreadJob
    /\ GameTasks # <<>>

\* ============================================================ load state
\* One container driven through Unpack, PreloadDynamicActors,
\* SpawnDynamicActors, the delegate of its class loads, and Pack.

MaxCycles == 2

containerRest == <<BlobData, WriteFrom, DestroyedAtWrite, Stage, Loaded>>
cycleFrame == <<jobVars, registryVars, levelVars, backendVars, cycleRest>>

\* Unpack().
UnpackCalled ==
    /\ ~Unpacked
    /\ Cycle < MaxCycles
    /\ Header' = IF Len(BlobData) > 0 THEN ReadHeader(BlobData) ELSE HeaderReset
    /\ Unpacked' = TRUE
    /\ Cycle' = Cycle + 1
    /\ UNCHANGED <<LoadState, PendingLoads, CalledBack, StateLog, SpawnLog,
                   containerRest, cycleFrame>>

\* PreloadDynamicActors(Level, Manager) on a container whose blob names
\* the classes of NumClasses dynamic actors: SpawnDynamicActorsInternal
\* without spawning requests their load, or has nothing to load.
PreloadDynamicActors(NumClasses) ==
    /\ Unpacked
    /\ LoadState = "Uninitialized"
    /\ IF NumClasses > 0
       THEN /\ LoadState' = "Preloading"
            /\ PendingLoads' = PendingLoads \cup {Cycle}
       ELSE /\ LoadState' = "Complete"
            /\ UNCHANGED PendingLoads
    /\ StateLog' = Append(StateLog, Given(LoadState', "PreloadDynamicActors"))
    /\ UNCHANGED <<Header, Cycle, Unpacked, CalledBack, SpawnLog, containerRest,
                   cycleFrame>>

\* What SpawnDynamicActors does to LoadState, StateLog and SpawnLog, after
\* the function by gave LoadState the value state; called: the cycles
\* whose delegate has been called by then.
SpawnDynamicActorsFrom(state, log, by, called) ==
    IF state = "SpawningDynamicActors"
    THEN /\ SpawnLog' = Append(SpawnLog, [cycle |-> Cycle, at |-> Len(log),
                                         called |-> Cycle \in called])
         /\ LoadState' = "Complete"
         /\ StateLog' = Append(log, Given("Complete", by))
    ELSE IF state = "Preloading"
    THEN /\ LoadState' = "WaitingForPreload"
         /\ StateLog' = Append(log, Given("WaitingForPreload", by))
         /\ UNCHANGED SpawnLog
    ELSE /\ LoadState' = state
         /\ StateLog' = log
         /\ UNCHANGED SpawnLog

\* SpawnDynamicActors(Level, Manager), called by the manager.
SpawnDynamicActorsCalled ==
    /\ Unpacked
    /\ LoadState \in {"SpawningDynamicActors", "Preloading"}
    /\ SpawnDynamicActorsFrom(LoadState, StateLog, "SpawnDynamicActors", CalledBack)
    /\ UNCHANGED <<Header, Cycle, Unpacked, PendingLoads, CalledBack, containerRest,
                   cycleFrame>>

\* OnDynamicActorsLoaded(Level) as the delegate of the load requested in
\* the cycle load; found: GetInstance(Level) gives the manager.
OnDynamicActorsLoadedOf(load, found) ==
    /\ load \in PendingLoads
    /\ PendingLoads' = PendingLoads \ {load}
    /\ CalledBack' = CalledBack \cup {load}
    /\ LET by == "OnDynamicActorsLoaded"
           spawning == Append(StateLog, Given("SpawningDynamicActors", by))
       IN IF LoadState = "Preloading"
          THEN /\ LoadState' = "SpawningDynamicActors"
               /\ StateLog' = spawning
               /\ UNCHANGED SpawnLog
          ELSE IF LoadState = "WaitingForPreload"
          THEN IF found
               THEN SpawnDynamicActorsFrom("SpawningDynamicActors", spawning, by,
                                           CalledBack \cup {load})
               ELSE /\ LoadState' = "SpawningDynamicActors"
                    /\ StateLog' = spawning
                    /\ UNCHANGED SpawnLog
          ELSE UNCHANGED <<LoadState, StateLog, SpawnLog>>
    /\ UNCHANGED <<Header, Cycle, Unpacked, containerRest, cycleFrame>>

\* Pack().
PackCalled ==
    /\ Unpacked
    /\ Header' = HeaderReset
    /\ LoadState' = "Uninitialized"
    /\ StateLog' = Append(StateLog, Given("Uninitialized", "Pack"))
    /\ Unpacked' = FALSE
    /\ UNCHANGED <<Cycle, PendingLoads, CalledBack, SpawnLog, containerRest, cycleFrame>>

CycleNext ==
    \/ UnpackCalled
    \/ \E NumClasses \in 0..1 : PreloadDynamicActors(NumClasses)
    \/ SpawnDynamicActorsCalled
    \/ \E load \in 1..MaxCycles, found \in BOOLEAN : OnDynamicActorsLoadedOf(load, found)
    \/ PackCalled

CycleSpec == ContainerSpecInit /\ [][CycleNext]_vars

\* The steps of LoadState the state machine has.
LoadStateSteps ==
    { <<"Uninitialized", "Preloading">>, <<"Uninitialized", "Complete">>,
      <<"Preloading", "SpawningDynamicActors">>, <<"Preloading", "WaitingForPreload">>,
      <<"WaitingForPreload", "SpawningDynamicActors">>,
      <<"SpawningDynamicActors", "Complete">> }

\* Every value LoadState was given follows the one before along a step of
\* the state machine, or is Uninitialized given by Pack.
StepsAllowed ==
    \A i \in 2..Len(StateLog) :
       \/ <<StateLog[i - 1].state, StateLog[i].state>> \in LoadStateSteps
       \/ StateLog[i] = Given("Uninitialized", "Pack")

\* Dynamic actors were spawned only on the step from SpawningDynamicActors
\* to Complete.
SpawnsOnStep ==
    \A k \in DOMAIN SpawnLog :
       /\ StateLog[SpawnLog[k].at].state = "SpawningDynamicActors"
       /\ StateLog[SpawnLog[k].at + 1].state = "Complete"

\* ... at most once between an unpack and the next pack.
SpawnsOncePerCycle ==
    \A j, k \in DOMAIN SpawnLog : SpawnLog[j].cycle = SpawnLog[k].cycle => j = k

\* ... and not before the delegate of the load of that cycle was called.
SpawnsAfterOwnCallback ==
    \A k \in DOMAIN SpawnLog : SpawnLog[k].called

\* C30: LoadState changes only along the steps of the state machine and to
\* Uninitialized on Pack; dynamic actors are spawned only on the step from
\* SpawningDynamicActors to Complete, at most once between an unpack and
\* the next pack, and never before the delegate of the class load
\* requested in that cycle has been called.
C30_LoadStateMachine ==
    /\ StepsAllowed
    /\ SpawnsOnStep
    /\ SpawnsOncePerCycle
    /\ SpawnsAfterOwnCallback

\* ============================================================ initialize gate
\* OnCanLevelActorsInitialize for the level of the level-load model, on a
\* session that is not a client, with the world's blocking level-streaming
\* passes.

\* The test of OnCanLevelActorsInitialize that ignores the blocking pass.
HoldsLevelUnchecked(bCheckDelegates) ==
    LevelTracked /\ HasLevelContainer /\ IsPreloadingDynamicActors(FALSE)

\* The test of OnCanLevelActorsInitialize: the level is in LoadedLevels,
\* has a container, and the container is preloading.
HoldsLevel(bCheckDelegates) ==
    LevelTracked /\ HasLevelContainer /\ IsPreloadingDynamicActors(bCheckDelegates)

\* OnCanLevelActorsInitialize(Level, World, CanInitialize) for the loaded
\* level; CanInitialize comes in as true.
OnCanLevelActorsInitialize(bIsTearingDown) ==
    /\ GameThreadRuns
    /\ LevelPhase = "loaded"
    /\ Asked' = [asked |-> TRUE,
                 preloading |-> LevelTracked /\ HasLevelContainer
                                   /\ LoadState = "Preloading",
                 block |-> InBlock,
                 completed |-> DynamicActorLoad = "completed",
                 tearing |-> bIsTearingDown,
                 CanInitialize |-> bIsTearingDown \/ ~HoldsLevel(InBlock)]
    /\ UNCHANGED <<InBlock, mainVars, gateRest>>

\* The engine goes on with the level once the gate lets it, and calls
\* OnLevelActorsInitialized.
LevelInitializes ==
    /\ ~HoldsLevel(InBlock)
    /\ OnLevelActorsInitialized

\* The delegate of the class load; none is called during a blocking pass.
DelegateCalled ==
    /\ ~InBlock
    /\ OnDynamicActorsLoaded

\* The world starts to block till level streaming is completed: a level
\* is being streamed in or out, or is about to be.
BlockBegins ==
    /\ GameThreadRuns
    /\ ~InBlock
    /\ LevelPhase # "initialized"
    /\ InBlock' = TRUE
    /\ UNCHANGED <<Asked, mainVars, gateRest>>

\* The blocking pass ends: no level is waiting to initialize.
BlockEnds ==
    /\ InBlock
    /\ LevelPhase # "loaded"
    /\ InBlock' = FALSE
    /\ UNCHANGED <<Asked, mainVars, gateRest>>

GateNext ==
    \/ OnLevelPostLoad
    \/ LoadCompletes
    \/ DelegateCalled
    \/ \E bIsTearingDown \in BOOLEAN : OnCanLevelActorsInitialize(bIsTearingDown)
    \/ LevelInitializes
    \/ LevelRegister
    \/ OnLevelPreRemoveFromWorld
    \/ OnLevelRemovedFromWorld
    \/ BlockBegins
    \/ BlockEnds

\* Every class load completes, its delegate is called once no blocking
\* pass is on, the engine initializes a level the gate lets through, and a
\* blocking pass ends when no level is waiting.
GateSpec ==
    /\ CommitInit
    /\ [][GateNext]_vars
    /\ WF_vars(LoadCompletes)
    /\ WF_vars(DelegateCalled)
    /\ WF_vars(LevelInitializes)
    /\ WF_vars(BlockEnds)

\* The level is loaded with its container preloading.
LevelPreloading ==
    LevelPhase = "loaded" /\ LevelTracked /\ HasLevelContainer /\ LoadState = "Preloading"

\* The answers of the gate: a level whose container is preloading is held,
\* except in a blocking pass when the load has completed and its delegate
\* was not called yet; exceptTearing: and except in a world being torn down.
GateAnswers(exceptTearing) ==
    (Asked.asked /\ Asked.preloading) =>
        (Asked.CanInitialize <=>
            \/ Asked.block /\ Asked.completed
            \/ exceptTearing /\ Asked.tearing)

\* The gate opens and the dynamic actors are spawned, while the level
\* stays loaded.
GateOpens ==
    /\ LevelPreloading ~> ~LevelPreloading
    /\ LevelPreloading ~> (LoadState = "Complete" \/ LevelPhase \in {"removing", "unloaded"})

\* C31 as stated: no exception for a world being torn down.
C31_HeldWhilePreloading == [](GateAnswers(FALSE)) /\ GateOpens

\* C31: on a session that is not a client, a level whose container is
\* Preloading is told to hold, except when the world is being torn down,
\* or is in a blocking level-streaming pass and the class load has
\* completed without its delegate having been called; and, every class
\* load completing, the level is eventually let through and, while it
\* stays loaded, its dynamic actors are eventually spawned, under a
\* blocking pass too.
C31_HeldUnlessTearingDown == [](GateAnswers(TRUE)) /\ GateOpens

\* C31 witness: in a blocking pass the gate let a preloading level through
\* whose load had completed, and its actors were spawned after the pass.
C31_Witness ==
    /\ Asked.asked /\ Asked.preloading /\ Asked.block /\ Asked.completed
    /\ Asked.CanInitialize
    /\ ~InBlock
    /\ LevelPhase = "initialized"
    /\ LoadState = "Complete"

\* ============================================================ packed or unpacked
\* The level's container over the level's loads and removals, with the
\* components of the level initializing.

\* UPersistenceContainer::IsPacked.
IsPacked == ~IsUnpacked(Header) /\ Len(BlobData) > 0

\* InitializeComponent of a component of the loaded level that has a valid
\* id: GetContainer(Component), then LoadData on the container if there is
\* one.
InitializeComponent(id) ==
    /\ GameThreadRuns
    /\ LevelPhase \in {"loaded", "initialized"}
    /\ LevelTracked
    /\ HasLevelContainer
    /\ LoadData(id)

PackedNext ==
    \/ LevelNext
    \/ \E id \in Guids : InitializeComponent(id)

PackedSpec == CommitInit /\ [][PackedNext]_vars

\* The container is packed or unpacked, and not both.
PackedOrUnpacked == HasLevelContainer => (IsPacked \/ IsUnpacked(Header))

\* Unpack is called on a packed container only.
UnpackGuard ==
    [][(OnLevelPostLoad /\ HasLevelContainer /\ ~IsUnpacked(Header)) => IsPacked]_vars

\* LoadData is called on a container without a blob or unpacked only.
LoadDataGuard ==
    [][\A id \in Guids :
          InitializeComponent(id) => (Len(BlobData) = 0 \/ IsUnpacked(Header))]_vars

\* C32: the level's container is always either packed (blob populated,
\* index and destroyed ids empty) or unpacked (index or destroyed ids
\* populated); Unpack is called only on a packed container; LoadData is
\* never called on a container with a blob that is not unpacked.
C32_PackedOrUnpacked ==
    /\ []PackedOrUnpacked
    /\ UnpackGuard
    /\ LoadDataGuard

\* ---------------------------------------------------------------------
\* The caching of unloads over a map change.

\* How many removals one window may defer.
MaxUnloads == 2

\* The worlds OnWorldCleanup is called for: one of this manager's game
\* instance, and one GetInstance does not answer this manager for.
Worlds == {"own", "other"}

\* OnPreLoadMap: check(!IsCachingUnloads), and the window opens. No level
\* load is waiting for its game instance, so ProcessCachedLoads does nothing.
OnPreLoadMap ==
    /\ GameThreadRuns
    /\ MapPhase = "idle"
    /\ MapPhase' = "unloading"
    /\ FailedChecks' = IF IsCachingUnloads
                       THEN FailedChecks \cup {"OnPreLoadMap"} ELSE FailedChecks
    /\ IsCachingUnloads' = TRUE
    /\ UNCHANGED <<CachedUnloads, Processed, mainVars, cacheRest>>

\* OnPostLoadMap: check(!IsCachingUnloads).
OnPostLoadMap ==
    /\ GameThreadRuns
    /\ MapPhase = "cleaned"
    /\ MapPhase' = "idle"
    /\ FailedChecks' = IF IsCachingUnloads
                       THEN FailedChecks \cup {"OnPostLoadMap"} ELSE FailedChecks
    /\ UNCHANGED <<IsCachingUnloads, CachedUnloads, Processed, mainVars, cacheRest>>

\* OnLevelRemovedFromWorld while IsCachingUnloads: the level, if it is in
\* LoadedLevels, is added to CachedUnloads and nothing else is done. With
\* bWorld the whole world is removed (Level is null), which takes the level
\* in whatever phase it is; otherwise the level was pre-removed.
OnLevelRemovedWhileCaching(bWorld) ==
    /\ GameThreadRuns
    /\ IsCachingUnloads
    /\ Len(CachedUnloads) < MaxUnloads
    /\ LevelPhase \in (IF bWorld THEN {"loaded", "initialized", "removing"}
                       ELSE {"removing"})
    /\ LevelPhase' = "unloaded"
    /\ CachedUnloads' = IF LevelTracked THEN Append(CachedUnloads, LevelKey)
                        ELSE CachedUnloads
    /\ UNCHANGED <<IsCachingUnloads, MapPhase, Processed, FailedChecks, cacheRest>>
    /\ UNCHANGED <<jobVars, containerVars, registryVars, backendVars,
                   LevelTracked, DynamicActorLoad, Loads, Broadcasts>>

\* OnLevelRemovedFromWorld outside the window.
OnLevelRemovedNow == ~IsCachingUnloads /\ OnLevelRemovedFromWorld

\* What OnLevelRemovedFromWorld does for a level of LoadedLevels when unloads
\* are not cached: PackContainer, and the level leaves LoadedLevels.
RemoveLoadedLevel ==
    /\ LevelTracked' = FALSE
    /\ IF LevelTracked
       THEN /\ RegisteredActors' = RemoveActors(RegisteredActors, LevelKey)
            /\ IF HasLevelContainer
               THEN /\ Header' = HeaderReset
                    /\ LoadState' = "Uninitialized"
                    /\ Stage' = IF Stage = "new" THEN "new" ELSE "packed"
                    /\ Containers' = LevelContainers(HeaderReset)
               ELSE UNCHANGED <<Header, LoadState, Stage, Containers>>
       ELSE UNCHANGED <<Header, LoadState, Stage, Containers, RegisteredActors>>
    /\ Loaded' = NotLoaded
    /\ UNCHANGED <<BlobData, WriteFrom, DestroyedAtWrite, DeletedLog>>

\* Nothing of the level or its container changes.
KeepLoadedLevel ==
    UNCHANGED <<containerVars, registryVars, LevelTracked>>

\* OnWorldCleanup that forgets the deferred levels without processing them.
OnWorldCleanupForgets(World) ==
    /\ GameThreadRuns
    /\ MapPhase = "unloading"
    /\ MapPhase' = "cleaned"
    /\ IsCachingUnloads' = FALSE
    /\ CachedUnloads' = <<>>
    /\ Processed' = <<>>
    /\ FailedChecks' = IF IsCachingUnloads /\ World # "own" /\ CachedUnloads # <<>>
                       THEN FailedChecks \cup {"OnWorldCleanup"} ELSE FailedChecks
    /\ KeepLoadedLevel
    /\ UNCHANGED <<jobVars, backendVars, LevelPhase, DynamicActorLoad, Loads,
                   Broadcasts, cacheRest>>

\* OnWorldCleanup: the window closes. For a world of this manager every
\* level of CachedUnloads goes through OnLevelRemovedFromWorld, now
\* uncached; for another world check(CachedUnloads.Num() == 0). The list is
\* emptied either way.
OnWorldCleanup(World) ==
    /\ GameThreadRuns
    /\ MapPhase = "unloading"
    /\ MapPhase' = "cleaned"
    /\ IsCachingUnloads' = FALSE
    /\ CachedUnloads' = <<>>
    /\ IF IsCachingUnloads /\ World = "own" /\ CachedUnloads # <<>>
       THEN /\ RemoveLoadedLevel
            /\ Processed' = CachedUnloads
            /\ UNCHANGED FailedChecks
       ELSE /\ KeepLoadedLevel
            /\ Processed' = <<>>
            /\ FailedChecks' = IF IsCachingUnloads /\ World # "own" /\ CachedUnloads # <<>>
                               THEN FailedChecks \cup {"OnWorldCleanup"}
                               ELSE FailedChecks
    /\ UNCHANGED <<jobVars, backendVars, LevelPhase, DynamicActorLoad, Loads,
                   Broadcasts, cacheRest>>

\* The level's load, its components and its removal, and the engine's map
\* change in its order: pre-load-map, world cleanup, post-load-map.
CacheNext ==
    \/ OnLevelPostLoad
    \/ OnLevelActorsInitialized
    \/ LevelRegister
    \/ \E id \in Guids : EndPlayDestroyed(id)
    \/ OnLevelPreRemoveFromWorld
    \/ OnLevelRemovedNow
    \/ \E bWorld \in BOOLEAN : OnLevelRemovedWhileCaching(bWorld)
    \/ OnPreLoadMap
    \/ \E World \in Worlds : OnWorldCleanup(World)
    \/ OnPostLoadMap

CacheSpec == CommitInit /\ [][CacheNext]_vars

\* A step that takes the level out of the world.
LevelRemovalStep == LevelPhase # "unloaded" /\ LevelPhase' = "unloaded"

\* In the window no level removal packs a container or drops the level from
\* LoadedLevels.
WindowDefers == [][(IsCachingUnloads /\ LevelRemovalStep) => KeepLoadedLevel]_vars

\* A cleanup of the given world that finds deferred levels processes them as
\* a removal outside the window does.
CleanupReplays(World) ==
    (OnWorldCleanup(World) /\ IsCachingUnloads /\ CachedUnloads # <<>>)
        => (RemoveLoadedLevel /\ Processed' = CachedUnloads)

\* A world cleanup empties the deferred list and closes the window.
CleanupEmpties ==
    [][\A World \in Worlds :
          OnWorldCleanup(World) => (CachedUnloads' = <<>> /\ ~IsCachingUnloads')]_vars

\* The window is open from pre-load-map to the world cleanup and at no other
\* time, so the checks of OnPreLoadMap and OnPostLoadMap hold.
WindowFollowsMapChange ==
    /\ IsCachingUnloads <=> (MapPhase = "unloading")
    /\ FailedChecks \cap {"OnPreLoadMap", "OnPostLoadMap"} = {}
    /\ ~IsCachingUnloads => CachedUnloads = <<>>

ShouldPersist(c) == ~Comp[c].TempOverridePersist

\* GetContainerKey for a component without a save key: the key LoadedLevels
\* has for its level, or None.
GetContainerKey(Level) == IF Level \in KeyedLevels THEN Level ELSE NoKey

\* Register: AddUnique under the component's container key.
RegisterIn(table, c, key) == [table EXCEPT ![key] = @ \cup {c}]

\* Unregister: Remove from the list of the key, if there is one.
UnregisterIn(table, c, key) == [table EXCEPT ![key] = @ \ {c}]

\* RegisterWithManager: nothing unless the component should persist (its
\* persistent id is valid since InitializeComponent).
RegisterWithManager(table, c, bEnable) ==
    IF ~ShouldPersist(c) THEN table
    ELSE IF bEnable THEN RegisterIn(table, c, GetContainerKey(Comp[c].Level))
    ELSE UnregisterIn(table, c, GetContainerKey(Comp[c].Level))

\* InitializeComponent of a new component in a level: one without a
\* persistent id (not placed in the editor) is dynamic.
CreateComponent(c, Level, bPlaced) ==
    /\ GameThreadRuns
    /\ Comp[c].play = "none"
    /\ Comp' = [Comp EXCEPT ![c].play = "initialized", ![c].Level = Level,
                            ![c].IsDynamic = ~bPlaced]
    /\ UNCHANGED <<Table, KeyedLevels, mainVars, tableRest>>

\* BeginPlay: RegisterWithManager(true).
BeginPlay(c) ==
    /\ GameThreadRuns
    /\ Comp[c].play = "initialized"
    /\ Comp' = [Comp EXCEPT ![c].play = "playing"]
    /\ Table' = RegisterWithManager(Table, c, TRUE)
    /\ UNCHANGED <<KeyedLevels, mainVars, tableRest>>

\* SetOverridePersist.
SetOverridePersist(c, Persist) ==
    /\ GameThreadRuns
    /\ Comp[c].play \in {"initialized", "playing"}
    /\ Comp' = [Comp EXCEPT ![c].TempOverridePersist = Persist,
                            ![c].IsDynamic = ~Persist]
    /\ UNCHANGED <<Table, KeyedLevels, mainVars, tableRest>>

\* The owner moves to another level and OnLevelChanged is called with the
\* old one: a persisting dynamic component is unregistered under the old
\* level's key and registered under its new one; a placed one is left.
OnLevelChanged(c, NewLevel) ==
    /\ GameThreadRuns
    /\ Comp[c].play = "playing"
    /\ NewLevel # Comp[c].Level
    /\ Comp' = [Comp EXCEPT ![c].Level = NewLevel]
    /\ Table' = IF ShouldPersist(c) /\ Comp[c].IsDynamic
                THEN RegisterIn(UnregisterIn(Table, c, GetContainerKey(Comp[c].Level)),
                                c, GetContainerKey(NewLevel))
                ELSE Table
    /\ UNCHANGED <<KeyedLevels, mainVars, tableRest>>

\* DeleteContainers naming the container of a level: the key's list leaves the
\* table and the level leaves LoadedLevels.
DeleteLevelContainer(k) ==
    /\ GameThreadRuns
    /\ k \in KeyedLevels
    /\ Table' = [Table EXCEPT ![k] = {}]
    /\ KeyedLevels' = KeyedLevels \ {k}
    /\ UNCHANGED <<Comp, mainVars, tableRest>>

\* A level gets its key again: OnLevelPostLoad, or GetContainer for a
\* component of a level that has none.
LevelKeyed(k) ==
    /\ GameThreadRuns
    /\ k \notin KeyedLevels
    /\ KeyedLevels' = KeyedLevels \cup {k}
    /\ UNCHANGED <<Comp, Table, mainVars, tableRest>>

\* EndPlay: what it records in the container leaves the table alone; then
\* RegisterWithManager(false).
EndPlay(c) ==
    /\ GameThreadRuns
    /\ Comp[c].play = "playing"
    /\ Comp' = [Comp EXCEPT ![c].play = "ended"]
    /\ Table' = RegisterWithManager(Table, c, FALSE)
    /\ UNCHANGED <<KeyedLevels, mainVars, tableRest>>

TableNext ==
    \/ \E c \in ActorIds, Level \in PlayLevels, bPlaced \in BOOLEAN :
          CreateComponent(c, Level, bPlaced)
    \/ \E c \in ActorIds : BeginPlay(c)
    \/ \E c \in ActorIds, Persist \in BOOLEAN : SetOverridePersist(c, Persist)
    \/ \E c \in ActorIds, NewLevel \in PlayLevels : OnLevelChanged(c, NewLevel)
    \/ \E k \in PlayLevels : DeleteLevelContainer(k)
    \/ \E k \in PlayLevels : LevelKeyed(k)
    \/ \E c \in ActorIds : EndPlay(c)

TableSpec == CommitInit /\ [][TableNext]_vars

\* C34: every entry of the registration table refers to a live component: a
\* component that has ended play is under no key, whatever calls of
\* SetOverridePersist, OnLevelChanged and DeleteContainers came between its
\* BeginPlay and its EndPlay.
C34_EntriesLive ==
    \A k \in DOMAIN Table : \A c \in Table[k] : Comp[c].play = "playing"

\* ---------------------------------------------------------------------
\* Outers before inners.

\* C35: in the index WriteBaseObject writes, the outer of every newly
\* constructed object that is itself in the index has a smaller index than
\* the object, for every object graph; the "Writing inner before outer"
\* check stops no write.
C35_OuterPrecedesInner ==
    /\ Archive.status # "stopped"
    /\ Archive.status = "written" => OutersFirst(Archive.index)

\* ---------------------------------------------------------------------
\* Reading records of declared length.

\* The records one read goes through, the longest declared length, and the
\* most components an actor's record names.
MaxRecords == 3
MaxLength == 2
MaxActorComponents == 2

\* Lengths a record declares, and what the live type's Serialize consumes.
Lengths == 0..MaxLength
Consumed == 0..(MaxLength + 1)

\* One pass of ReadBaseObject's second loop: the index and the length are
\* read (a cell each); an object that exists and has data is serialized,
\* and the reader seeks to the declared end if it is not there; any other
\* record is skipped by its length. Then IsActor is read, and for an actor
\* the count of its components.
ReadObjectRecord(ObjectLength, consumed, bObject, IsActor, ComponentCount) ==
    /\ NumRead < MaxRecords
    /\ ComponentsLeft = 0
    /\ LET ObjectStart == ReadPos + 2
           told == IF bObject /\ ObjectLength > 0 THEN ObjectStart + consumed
                   ELSE ObjectStart
           after == IF bObject /\ ObjectLength > 0
                    THEN IF told # ObjectStart + ObjectLength
                         THEN ObjectStart + ObjectLength ELSE told
                    ELSE told + ObjectLength
           counted == IF IsActor THEN 2 ELSE 1
       IN  /\ ReadPos' = after + counted
           /\ DeclaredEnd' = DeclaredEnd + 2 + ObjectLength + counted
    /\ NumRead' = NumRead + 1
    /\ ComponentsLeft' = IF IsActor THEN ComponentCount ELSE 0
    /\ ActorFound' = (IsActor /\ bObject)
    /\ UNCHANGED <<mainVars, readRest>>

\* One pass of ReadComponents' loop: the key and the length are read; a
\* component of that name is serialized, a missing one is skipped by its
\* length.
ReadComponentRecord(ComponentLength, consumed, bNamed) ==
    /\ ComponentsLeft > 0
    /\ LET start == ReadPos + 2
           FoundComponent == ActorFound /\ bNamed
       IN  /\ ReadPos' = IF FoundComponent THEN start + consumed
                         ELSE start + ComponentLength
           /\ DeclaredEnd' = DeclaredEnd + 2 + ComponentLength
    /\ ComponentsLeft' = ComponentsLeft - 1
    /\ UNCHANGED <<NumRead, ActorFound, mainVars, readRest>>

RecordNext ==
    \/ \E ObjectLength \in Lengths, consumed \in Consumed, bObject \in BOOLEAN,
          IsActor \in BOOLEAN, ComponentCount \in 0..MaxActorComponents :
          ReadObjectRecord(ObjectLength, consumed, bObject, IsActor, ComponentCount)
    \/ \E ComponentLength \in Lengths, consumed \in Consumed, bNamed \in BOOLEAN :
          ReadComponentRecord(ComponentLength, consumed, bNamed)

RecordSpec == CommitInit /\ [][RecordNext]_vars

\* After every object record the reader is at the record's declared end.
ObjectRecordsResync ==
    [][(NumRead' # NumRead /\ ReadPos = DeclaredEnd) => ReadPos' = DeclaredEnd']_vars

ChecksumComputed(blob) ==
    /\ FieldAt(blob, "Version") \in 10..GUNFIRE_PERSISTENCE_VERSION
    /\ FieldAt(blob, "Size") <= Len(blob)

\* C37: header validation reads nothing outside the buffer: for every
\* buffer and every declared size it returns Success, Corrupt or TooNew, and
\* whenever it computes the checksum the range from ChecksumDataStartOffset
\* to Size lies within the buffer.
C37_ChecksumWithinBuffer ==
    HeaderOut.op # "none"
        => /\ HeaderOut.res \in {"Success", "Corrupt", "TooNew"}
           /\ ChecksumComputed(SaveBlob)
                 => /\ ChecksumDataStartOffset <= FieldAt(SaveBlob, "Size")
                    /\ FieldAt(SaveBlob, "Size") <= Len(SaveBlob)

\* ---------------------------------------------------------------------
\* The document and the slot.

\* The current document, when there is one, was read from or created for
\* the current slot.
DocumentOfCurrentSlot == CurrentData # NullDoc => CurrentData.slot = CurrentSlot

\* C38: whenever the current document is non-null it is the document of the
\* current slot, so that CommitSave writes to a slot only what was loaded
\* from or created for it: this holds at the start and every step other than
\* CommitSaveToSlot keeps it, for any interleaving of LoadSave, DeleteSave
\* and CommitSave calls with job completions.
C38_DocumentOfCurrentSlot ==
    /\ DocumentOfCurrentSlot
    /\ [][(DocumentOfCurrentSlot /\ ~(\E slot \in Slots : CommitSaveToSlot(slot)))
             => DocumentOfCurrentSlot']_vars

\* ---------------------------------------------------------------------
\* Commits between a level's pre-remove and its removal.

\* EndPlay of a component of the level after the level's pre-remove:
\* Unregister.
EndPlayWhileRemoving ==
    /\ LevelPhase = "removing"
    /\ LevelTracked
    /\ Unregister(LevelKey)

\* CommitSave in the world of the one level: the loop over RegisteredActors
\* writes the level's container from the components registered now if there
\* are any or the container has destroyed entries, and has it deleted
\* otherwise; the rest is CommitSave as it is.
CommitSaveLevel ==
    /\ CanCall
    /\ CommitSaveBody(CurrentSlot)
    /\ LET k == FindActors(RegisteredActors, LevelKey)
       IN  IF CommitRefused \/ CurrentData = NullDoc \/ k = 0
           THEN UNCHANGED containerVars
           ELSE IF InUse(RegisteredActors[k].Num, Containers,
                         GetContainer(Containers, LevelKey))
           THEN \E comps \in ComponentLists :
                   /\ Len(comps) = RegisteredActors[k].Num
                   /\ Header' = WriteDataResult(comps).Header
                   /\ BlobData' = WriteDataResult(comps).Blob
                   /\ WriteFrom' = comps
                   /\ DestroyedAtWrite' = IF HasLevelContainer
                                          THEN Range(Header.Destroyed) ELSE {}
                   /\ Stage' = "written"
                   /\ Loaded' = NotLoaded
                   /\ UNCHANGED LoadState
           ELSE UNCHANGED containerVars
    /\ UNCHANGED <<CurrentSlot, CurrentData, UserProfile, UserIndex,
                   lockVars, QueuedJobs, HasRunningThreadJob, ThreadShouldStop,
                   workerVars, GameTasks, gpc, ManagerAlive, diskVars, LastStoreCall>>
    /\ UNCHANGED <<levelVars, backendVars, sideVars>>

WindowNext ==
    \/ OnLevelPostLoad
    \/ OnLevelActorsInitialized
    \/ LevelRegister
    \/ OnLevelPreRemoveFromWorld
    \/ EndPlayWhileRemoving
    \/ CommitSaveLevel
    \/ OnLevelRemovedFromWorld

WindowSpec == CommitInit /\ [][WindowNext]_vars

\* The level has been pre-removed, its container written and packed, and
\* the level-removed processing has not run.
PackedAtPreRemove ==
    /\ LevelPhase = "removing"
    /\ HasLevelContainer
    /\ Stage = "packed"

\* The entities a blob's index names.
EntitiesIn(blob) == Len(ReadHeader(blob).Info)

\* C39: a container written and packed at the level's pre-remove is not
\* deleted, and its blob not rewritten with fewer entities, by a CommitSave
\* that runs before the level-removed processing, whatever components have
\* unregistered in between.
C39_PackedBlobSurvivesCommit ==
    [][(CommitSaveLevel /\ PackedAtPreRemove)
          => (HasLevelContainer' /\ EntitiesIn(BlobData') >= EntitiesIn(BlobData))]_vars

\* ============================================ a slot queried again
\* HasSave and LoadSave of slot 0, with nothing that writes, deletes or
\* restores a save: the jobs through the worker thread (DoesSaveGameExist,
\* LoadSaveGame, each with its fallback to RestoreBackup) and the thread
\* hops that deliver their results.

\* The disk a session may find: at slot 0 no save, a good one or a damaged
\* one, and no backup, a good one or a damaged one at bak1; the other names
\* as in the first disk image.
QueryImages ==
    { [n \in Names |->
         IF n = SlotName(0) THEN live
         ELSE IF n = SlotName(1) THEN Blob(GUNFIRE_PERSISTENCE_VERSION, FALSE, 0)
         ELSE NoFile] :
      live \in {NoFile, Blob(GUNFIRE_PERSISTENCE_VERSION, FALSE, 0),
                Blob(GUNFIRE_PERSISTENCE_VERSION, TRUE, 0)} }
QueryBackups ==
    { [n \in Names |-> IF n = SlotName(0) THEN [EmptyChain EXCEPT ![1] = bak]
                       ELSE EmptyChain] :
      bak \in {NoFile, Blob(GUNFIRE_PERSISTENCE_VERSION, FALSE, 0),
               Blob(GUNFIRE_PERSISTENCE_VERSION, TRUE, 0)} }

QueryInit ==
    /\ ManagerConstructed
    /\ Files \in QueryImages
    /\ Backups \in QueryBackups
    /\ AuxInit

QueryNext ==
    \/ HasSave(0)
    \/ LoadSave(0)
    \/ W_Dequeue \/ W_Wait \/ W_Exists \/ W_Load
    \/ GT_HasDone \/ GT_LoadDispatch
    \/ OnSaveClassesLoaded \/ GT_Resume

QuerySpec == QueryInit /\ [][QueryNext]_vars

\* A HasSave or LoadSave has delivered one of the results to its callback.
WasReported(results) ==
    \E i \in DOMAIN Delivered :
        /\ Delivered[i].via = "callback"
        /\ Delivered[i].type \in {"HasSlot", "LoadSlot"}
        /\ Delivered[i].res \in results

\* The worker has one of the results for a HasSave or LoadSave of the slot
\* on its way to the game thread.
Reported(slot, results) ==
    \E i \in DOMAIN GameTasks :
        /\ GameTasks[i].kind \in {"has", "load"}
        /\ GameTasks[i].job.Type \in {"HasSlot", "LoadSlot"}
        /\ GameTasks[i].job.Slot = slot
        /\ GameTasks[i].res \in results

\* C40: with no save, delete or restore of the slot, once a HasSave or
\* LoadSave of it has reported Corrupt, no later one reports Empty or
\* DoesNotExist.
C40_CorruptStaysCorrupt ==
    WasReported({"Corrupt"}) => ~Reported(0, {"Empty", "DoesNotExist"})

====
